--------------------------- MODULE WorkbenchProofs ---------------------------
(***************************************************************************)
(* Proofs about Workbench, for any number of sessions, commits, messages   *)
(* and observers that a pass is built with: a pass leaves the same log     *)
(* whichever observer was first, the log says nothing of git that is not   *)
(* so, and a hook that nobody came between does what it decided on.        *)
(***************************************************************************)
EXTENDS Workbench, KernelProofs

-----------------------------------------------------------------------------
(* Bodies *)

\* The kind of a body tells its fields.
LEMMA KindTells ==
    ASSUME NEW b \in EventBody
    PROVE  /\ b.kind = "MilestoneShipped" => b \in MilestoneShipped
           /\ b.kind = "MilestoneReverted" => b \in MilestoneReverted
           /\ b.kind = "MilestoneVerified" => b \in MilestoneVerified
           /\ b.kind = "ModelSwitched" => b \in ModelSwitched
           /\ b.kind = "EventSuperseded" => b \in EventSuperseded
BY DEF EventBody, UnitCreated, PhaseCompleted, PhaseSkipped, MilestoneShipped,
       MilestoneReverted, MilestoneVerified, GateRecorded, StatusTransitioned, ReconcileFailed,
       ReconcileRecovered, EventSuperseded, SubagentCompleted, ToolCallFailed, ModelSwitched,
       ApprovalRecorded

EventKinds ==
    {"UnitCreated", "PhaseCompleted", "PhaseSkipped", "MilestoneShipped", "MilestoneReverted",
     "MilestoneVerified", "GateRecorded", "StatusTransitioned", "ReconcileFailed",
     "ReconcileRecovered", "EventSuperseded", "SubagentCompleted", "ToolCallFailed",
     "ModelSwitched", "ApprovalRecorded"}

LEMMA KindsOfBodies ==
    ASSUME NEW b \in EventBody
    PROVE  b.kind \in EventKinds
BY DEF EventBody, UnitCreated, PhaseCompleted, PhaseSkipped, MilestoneShipped,
       MilestoneReverted, MilestoneVerified, GateRecorded, StatusTransitioned, ReconcileFailed,
       ReconcileRecovered, EventSuperseded, SubagentCompleted, ToolCallFailed, ModelSwitched,
       ApprovalRecorded, EventKinds

\* Different kinds have different ordinals.
LEMMA OrdinalsDiffer ==
    ASSUME NEW x \in EventKinds, NEW y \in EventKinds
    PROVE  KindOrdinal(x) \in 1..15 /\ (KindOrdinal(x) = KindOrdinal(y) => x = y)
BY DEF EventKinds, KindOrdinal

\* Different observers have different ranks.
LEMMA RanksDiffer ==
    ASSUME NEW x \in Observers, NEW y \in Observers
    PROVE  Rank(x) \in 1..4 /\ (Rank(x) = Rank(y) => x = y)
BY DEF Observers, Rank

-----------------------------------------------------------------------------
(* Logs that grow *)

\* The log k is l or extends it, by bodies in B, and is legal if l was.
Grown(l, k, B) ==
    /\ k \in Seq(Event)
    /\ k = l \/ Len(l) < Len(k)
    /\ \A i \in 1..Len(l) : k[i] = l[i]
    /\ \A i \in DOMAIN k : i > Len(l) => k[i].body \in B
    /\ Legal(l) => Legal(k)

\* A log that stays as it is has grown by nothing.
LEMMA StaysTheSame ==
    ASSUME NEW l \in Seq(Event), NEW B
    PROVE  Grown(l, l, B)
BY DEF Grown

\* What offering a body leaves.
LEMMA OfferedFacts ==
    ASSUME NEW l \in Seq(Event), NEW b \in EventBody
    PROVE  Grown(l, Offered(l, b), {b})
<1>1. CASE ~Admissible(l, b)
  BY <1>1, StaysTheSame DEF Offered
<1>2. CASE Admissible(l, b)
  <2> DEFINE e == Stamped(l, b, 0)
             k == Append(l, e)
  <2>1. Offered(l, b) = k
    BY <1>2 DEF Offered
  <2>2. 0 \in 0..MaxTime
    BY ClockAssumption
  <2>3. e \in Event /\ e.body = b
    BY <2>2, StampedIsEvent DEF Stamped
  <2>4. Legal(l) => Legal(k)
    BY <1>2, <2>2, LegalAppend
  <2> HIDE DEF e
  <2>5. /\ k \in Seq(Event) /\ Len(k) = Len(l) + 1
        /\ DOMAIN k = 1..(Len(l) + 1)
        /\ \A i \in 1..Len(l) : k[i] = l[i]
        /\ k[Len(l) + 1] = e
    BY <2>3, AppendFacts
  <2> HIDE DEF k
  <2>6. \A i \in DOMAIN k : i > Len(l) => i = Len(l) + 1
    BY <2>5
  <2>. QED
    BY <2>1, <2>3, <2>4, <2>5, <2>6 DEF Grown
<1>. QED
  BY <1>1, <1>2

\* Growing twice is growing.
LEMMA GrownTwice ==
    ASSUME NEW l \in Seq(Event), NEW B, NEW k \in Seq(Event), NEW j, Grown(l, k, B),
           NEW C, Grown(k, j, C), C \subseteq B
    PROVE  Grown(l, j, B)
<1>1. Len(l) \in Nat /\ Len(k) \in Nat /\ j \in Seq(Event) /\ Len(j) \in Nat
  BY DEF Grown
<1>2. Len(l) <= Len(k) /\ Len(k) <= Len(j)
  BY <1>1 DEF Grown
<1>3. j = l \/ Len(l) < Len(j)
  BY <1>1, <1>2 DEF Grown
<1>4. \A i \in 1..Len(l) : j[i] = l[i]
  BY <1>1, <1>2 DEF Grown
<1>5. ASSUME NEW i \in DOMAIN j, i > Len(l)
      PROVE  j[i].body \in B
  <2>1. i \in 1..Len(j)
    BY <1>1
  <2>2. CASE i > Len(k)
    BY <2>2 DEF Grown
  <2>3. CASE i <= Len(k)
    <3>1. i \in 1..Len(k) /\ i \in DOMAIN k
      BY <1>1, <2>1, <2>3
    <3>. QED
      BY <1>5, <3>1 DEF Grown
  <2>. QED
    BY <1>1, <2>1, <2>2, <2>3
<1>. QED
  BY <1>1, <1>3, <1>4, <1>5 DEF Grown

\* A log that has grown by some bodies has grown by more.
LEMMA GrownByMore ==
    ASSUME NEW l, NEW k, NEW B, NEW C, Grown(l, k, B), B \subseteq C
    PROVE  Grown(l, k, C)
BY DEF Grown

\* A batch appended one by one: the log has grown by bodies of the batch.  (The
\* recursive definition has a value because each of its finite beginnings has,
\* and each value has grown because the one before it has.)
LEMMA AppendedFacts ==
    ASSUME NEW l \in Seq(Event), NEW B \in SUBSET EventBody, NEW batch \in Seq(B)
    PROVE  Grown(l, Appended(l, batch), B)
<1> DEFINE N == Len(batch)
           G(f, n) == IF n = 0 THEN l ELSE Offered(f[n - 1], batch[n])
           Is(f, m) == /\ f = [n \in 0..m |-> G(f, n)]
                       /\ \A n \in 0..m : Grown(l, f[n], B)
<1>0. N \in Nat
  OBVIOUS
<1>1. Is([n \in 0..0 |-> G(<<>>, 0)], 0)
  BY StaysTheSame DEF Is
<1>2. ASSUME NEW m \in Nat, m < N, \E f : Is(f, m)
      PROVE  \E f : Is(f, m + 1)
  <2>1. PICK f : Is(f, m)
    BY <1>2
  <2> DEFINE g == [n \in 0..(m + 1) |-> IF n = m + 1 THEN G(f, n) ELSE f[n]]
  <2>2. ASSUME NEW n \in 0..(m + 1)
        PROVE  g[n] = G(g, n)
    <3>1. CASE n = 0
      BY <2>1, <3>1
    <3>2. CASE n # 0
      <4>1. n - 1 \in 0..m /\ g[n - 1] = f[n - 1]
        BY <3>2
      <4>2. G(g, n) = G(f, n)
        BY <3>2, <4>1
      <4>3. n # m + 1 => f[n] = G(f, n)
        <5>1. n # m + 1 => n \in 0..m
          OBVIOUS
        <5> HIDE DEF G
        <5>. QED
          BY <2>1, <5>1
      <4>. QED
        BY <4>2, <4>3
    <3>. QED
      BY <3>1, <3>2
  <2>3. Grown(l, Offered(f[m], batch[m + 1]), B)
    <3>1. Grown(l, f[m], B) /\ f[m] \in Seq(Event)
      BY <2>1 DEF Grown
    <3>2. batch[m + 1] \in B
      BY <1>2, <1>0
    <3>3. Grown(f[m], Offered(f[m], batch[m + 1]), {batch[m + 1]})
      BY <3>1, <3>2, OfferedFacts
    <3>. QED
      BY <3>1, <3>2, <3>3, GrownTwice
  <2>4. \A n \in 0..(m + 1) : Grown(l, g[n], B)
    <3>1. g[m + 1] = Offered(f[m], batch[m + 1])
      OBVIOUS
    <3>2. \A n \in 0..m : g[n] = f[n] /\ Grown(l, f[n], B)
      BY <2>1
    <3>3. \A n \in 0..(m + 1) : n \in 0..m \/ n = m + 1
      OBVIOUS
    <3> HIDE DEF g
    <3>. QED
      BY <2>3, <3>1, <3>2, <3>3
  <2>5. Is(g, m + 1)
    <3>1. g = [n \in 0..(m + 1) |-> g[n]]
      OBVIOUS
    <3> HIDE DEF g, G
    <3>. QED
      BY <2>2, <2>4, <3>1
  <2>. QED
    BY <2>5
<1> DEFINE Bad == {m \in 0..N : ~ \E f : Is(f, m)}
<1>3. Bad = {}
  <2> SUFFICES ASSUME Bad # {} PROVE FALSE
    OBVIOUS
  <2>1. PICK m \in Bad : \A k \in Bad : m <= k
    <3>1. Bad \in SUBSET Nat
      BY <1>0
    <3> HIDE DEF Bad
    <3>. QED
      BY <3>1, EarliestExists
  <2>2. m # 0
    <3> HIDE DEF Is
    <3>. QED
      BY <1>1
  <2>3. m - 1 \in 0..N /\ m - 1 < N /\ m - 1 < m
    <3>1. m \in 0..N
      OBVIOUS
    <3> HIDE DEF Bad, N
    <3>. QED
      BY <1>0, <2>2, <3>1
  <2>5. m - 1 \notin Bad
    <3>1. m \in Int
      BY <1>0
    <3> HIDE DEF Bad, N
    <3>. QED
      BY <2>1, <2>3, <3>1
  <2> HIDE DEF Is
  <2>4. \E f : Is(f, (m - 1) + 1)
    BY <1>0, <2>3, <2>5, <1>2
  <2>. QED
    BY <1>0, <2>4, <2>1
<1> DEFINE Value(f) == f = [n \in 0..N |-> G(f, n)]
<1>4. \E f : Value(f) /\ \A n \in 0..N : Grown(l, f[n], B)
  <2>1. \E f : Is(f, N)
    <3> HIDE DEF Is
    <3>. QED
      BY <1>3, <1>0
  <2>. QED
    BY <2>1
<1>5. \A f, g : Value(f) /\ Value(g) => f = g
  <2> SUFFICES ASSUME NEW f, NEW g, Value(f), Value(g)
               PROVE  f = g
    OBVIOUS
  <2> DEFINE Apart == {n \in 0..N : f[n] # g[n]}
  <2>1. Apart = {}
    <3> SUFFICES ASSUME Apart # {} PROVE FALSE
      OBVIOUS
    <3>1. PICK n \in Apart : \A k \in Apart : n <= k
      <4>1. Apart \in SUBSET Nat
        BY <1>0
      <4> HIDE DEF Apart
      <4>. QED
        BY <4>1, EarliestExists
    <3>2. n \in 0..N /\ f[n] = G(f, n) /\ g[n] = G(g, n)
      <4>1. n \in 0..N
        OBVIOUS
      <4> HIDE DEF G
      <4>. QED
        BY <4>1
    <3>3. n = 0 => G(f, n) = G(g, n)
      OBVIOUS
    <3>4. n # 0 => n - 1 \in 0..N /\ n - 1 \notin Apart
      BY <1>0, <3>1, <3>2
    <3>5. n # 0 => f[n - 1] = g[n - 1]
      BY <3>4
    <3>6. n # 0 => G(f, n) = G(g, n)
      BY <3>5
    <3>. QED
      BY <3>1, <3>2, <3>3, <3>6
  <2>2. f = [n \in 0..N |-> f[n]] /\ g = [n \in 0..N |-> g[n]]
    <3> HIDE DEF G
    <3>. QED
      OBVIOUS
  <2>. QED
    BY <2>1, <2>2
<1>6. Appended(l, batch) = (CHOOSE f : Value(f))[N]
  BY DEF Appended
<1>7. PICK f : Value(f) /\ \A n \in 0..N : Grown(l, f[n], B)
  <2> HIDE DEF Value
  <2>. QED
    BY <1>4
<1>8. (CHOOSE h : Value(h)) = f
  <2> HIDE DEF Value
  <2>. QED
    BY <1>5, <1>7
<1>9. Grown(l, f[N], B)
  <2> HIDE DEF Value
  <2>. QED
    BY <1>0, <1>7
<1>. QED
  <2> HIDE DEF Value
  <2>. QED
    BY <1>6, <1>8, <1>9

-----------------------------------------------------------------------------
(* The order of a batch *)

Pairs == Seq(Observers \X EventBody)

\* A proposal's place among those of its observer.
Nth(pairs, i) == Cardinality({j \in 1..i : pairs[j][1] = pairs[i][1]})

Remark(pairs, i) ==
    [by |-> pairs[i][1], body |-> pairs[i][2], nth |-> Nth(pairs, i)]

LEMMA PlaceIsNumber ==
    ASSUME NEW pairs \in Pairs, NEW i \in DOMAIN pairs
    PROVE  Nth(pairs, i) \in Nat
<1>1. i \in Int /\ 1 \in Int
  BY DEF Pairs
<1>2. IsFiniteSet(1..i)
  BY <1>1, FS_Interval
<1>3. {j \in 1..i : pairs[j][1] = pairs[i][1]} \in SUBSET (1..i)
  OBVIOUS
<1>4. IsFiniteSet({j \in 1..i : pairs[j][1] = pairs[i][1]})
  BY <1>2, <1>3, FS_Subset
<1>. QED
  BY <1>4, FS_CardinalityType DEF Nth

\* The later of two proposals of one observer has the higher place.
LEMMA NthGrows ==
    ASSUME NEW pairs \in Pairs, NEW i \in DOMAIN pairs, NEW j \in DOMAIN pairs,
           i < j, pairs[i][1] = pairs[j][1]
    PROVE  Nth(pairs, i) \in Nat /\ Nth(pairs, j) \in Nat /\ Nth(pairs, i) < Nth(pairs, j)
<1> DEFINE S == {m \in 1..i : pairs[m][1] = pairs[i][1]}
           T == {m \in 1..j : pairs[m][1] = pairs[j][1]}
<1>1. i \in Int /\ j \in Int /\ 1 \in Int /\ i >= 1 /\ j >= 1
  BY DEF Pairs
<1>2. IsFiniteSet(1..j)
  BY <1>1, FS_Interval
<1>3. S \in SUBSET T /\ j \in T /\ j \notin S /\ T \in SUBSET (1..j)
  BY <1>1
<1>4. IsFiniteSet(T)
  BY <1>2, <1>3, FS_Subset
<1> HIDE DEF S, T
<1>5. IsFiniteSet(S) /\ Cardinality(S) <= Cardinality(T) /\ Cardinality(S) # Cardinality(T)
  BY <1>3, <1>4, FS_Subset
<1>6. Cardinality(S) \in Nat /\ Cardinality(T) \in Nat
  BY <1>4, <1>5, FS_CardinalityType
<1>7. Nth(pairs, i) = Cardinality(S) /\ Nth(pairs, j) = Cardinality(T)
  BY DEF Nth, S, T
<1>. QED
  BY <1>5, <1>6, <1>7

\* Sorting by observer and kind, ties in the order of the join, is sorting by
\* observer, kind and place.
LEMMA SameOrder ==
    ASSUME NEW pairs \in Pairs, NEW i \in DOMAIN pairs, NEW j \in DOMAIN pairs
    PROVE  LET key(m) == 16 * Rank(pairs[m][1]) + KindOrdinal(pairs[m][2].kind)
           IN  Precedes(Remark(pairs, i), Remark(pairs, j))
                  <=> key(i) < key(j) \/ (key(i) = key(j) /\ i < j)
<1> DEFINE x == Remark(pairs, i)
           y == Remark(pairs, j)
           a == Rank(x.by)
           b == Rank(y.by)
           c == KindOrdinal(x.body.kind)
           d == KindOrdinal(y.body.kind)
<1>1. /\ x.by = pairs[i][1] /\ x.body = pairs[i][2] /\ x.nth = Nth(pairs, i)
      /\ y.by = pairs[j][1] /\ y.body = pairs[j][2] /\ y.nth = Nth(pairs, j)
  BY DEF Remark
<1>2. /\ x.by \in Observers /\ y.by \in Observers
      /\ x.body \in EventBody /\ y.body \in EventBody
      /\ i \in Int /\ j \in Int
  BY <1>1 DEF Pairs
<1>3. x.body.kind \in EventKinds /\ y.body.kind \in EventKinds
  BY <1>2, KindsOfBodies
<1> HIDE DEF x, y
<1>4. /\ a \in 1..4 /\ b \in 1..4 /\ (a = b <=> x.by = y.by)
      /\ c \in 1..15 /\ d \in 1..15 /\ (c = d <=> x.body.kind = y.body.kind)
  BY <1>2, <1>3, RanksDiffer, OrdinalsDiffer
<1>5. /\ x.by = y.by /\ i < j => x.nth < y.nth /\ x.nth \in Nat /\ y.nth \in Nat
      /\ x.by = y.by /\ j < i => y.nth < x.nth /\ x.nth \in Nat /\ y.nth \in Nat
  BY <1>1, NthGrows
<1>6. x.by = y.by => (x.nth < y.nth <=> i < j)
  <2>1. i = j => x.nth = y.nth
    BY <1>1
  <2>2. i = j => ~(x.nth < y.nth)
    <3>1. i = j => x.nth \in Nat
      BY <1>1, PlaceIsNumber
    <3>. QED
      BY <2>1, <3>1
  <2>. QED
    BY <1>2, <1>5, <2>2
<1> DEFINE Less == a < b \/ (a = b /\ c < d) \/ (a = b /\ c = d /\ i < j)
<1>7. Precedes(x, y) <=> Less
  BY <1>4, <1>6 DEF Precedes
<1>8. Less <=> 16 * a + c < 16 * b + d \/ (16 * a + c = 16 * b + d /\ i < j)
  <2> HIDE DEF a, b, c, d
  <2>. QED
    BY <1>2, <1>4
<1>9. /\ 16 * Rank(pairs[i][1]) + KindOrdinal(pairs[i][2].kind) = 16 * a + c
      /\ 16 * Rank(pairs[j][1]) + KindOrdinal(pairs[j][2].kind) = 16 * b + d
  BY <1>1
<1> HIDE DEF a, b, c, d, Less
<1>. QED
  BY <1>7, <1>8, <1>9 DEF x, y

\* The sort key of a proposal, and the order that Batch sorts a join by.
SortKey(pairs) ==
    [i \in DOMAIN pairs |-> 16 * Rank(pairs[i][1]) + KindOrdinal(pairs[i][2].kind)]

JoinOrder(pairs) ==
    {p \in (DOMAIN pairs) \X (DOMAIN pairs) :
        \/ SortKey(pairs)[p[1]] < SortKey(pairs)[p[2]]
        \/ SortKey(pairs)[p[1]] = SortKey(pairs)[p[2]] /\ p[1] < p[2]}

LEMMA JoinOrderFacts ==
    ASSUME NEW pairs \in Pairs
    PROVE  /\ IsFiniteSet(DOMAIN pairs) /\ DOMAIN pairs \subseteq Int
           /\ Orders(JoinOrder(pairs), DOMAIN pairs)
           /\ \A i, j \in DOMAIN pairs :
                 <<i, j>> \in JoinOrder(pairs) <=> Precedes(Remark(pairs, i), Remark(pairs, j))
           /\ DOMAIN Batch(pairs) = 1..Cardinality(DOMAIN pairs)
           /\ \A k \in 1..Cardinality(DOMAIN pairs) :
                 /\ InOrder(DOMAIN pairs, JoinOrder(pairs))[k] \in DOMAIN pairs
                 /\ Batch(pairs)[k] = pairs[InOrder(DOMAIN pairs, JoinOrder(pairs))[k]][2]
           /\ Batch(pairs) = [k \in DOMAIN Batch(pairs) |-> Batch(pairs)[k]]
<1> DEFINE D == DOMAIN pairs
           key == SortKey(pairs)
           R == JoinOrder(pairs)
<1>1. IsFiniteSet(D) /\ D \subseteq Int
  <2>1. D = 1..Len(pairs) /\ Len(pairs) \in Int /\ 1 \in Int
    BY DEF Pairs
  <2> HIDE DEF D
  <2>. QED
    BY <2>1, FS_Interval
<1>2. ASSUME NEW i \in D, NEW j \in D
      PROVE  <<i, j>> \in R <=> key[i] < key[j] \/ (key[i] = key[j] /\ i < j)
  <2>1. <<i, j>> \in D \X D /\ <<i, j>>[1] = i /\ <<i, j>>[2] = j
    OBVIOUS
  <2>2. R = {p \in D \X D : key[p[1]] < key[p[2]] \/ (key[p[1]] = key[p[2]] /\ p[1] < p[2])}
    BY DEF JoinOrder
  <2> HIDE DEF D, key, R
  <2>. QED
    BY <2>1, <2>2
<1>3. \A i \in D : key[i] \in Int
  <2> SUFFICES ASSUME NEW i \in D PROVE key[i] \in Int
    OBVIOUS
  <2>1. pairs[i][1] \in Observers /\ pairs[i][2] \in EventBody
    BY DEF Pairs
  <2>2. Rank(pairs[i][1]) \in 1..4 /\ KindOrdinal(pairs[i][2].kind) \in 1..15
    BY <2>1, RanksDiffer, KindsOfBodies, OrdinalsDiffer
  <2>. QED
    BY <2>2 DEF SortKey
<1>4. \A i, j \in D : <<i, j>> \in R <=> Precedes(Remark(pairs, i), Remark(pairs, j))
  <2> SUFFICES ASSUME NEW i \in D, NEW j \in D
               PROVE  <<i, j>> \in R <=> Precedes(Remark(pairs, i), Remark(pairs, j))
    OBVIOUS
  <2>1. Precedes(Remark(pairs, i), Remark(pairs, j)) <=>
            key[i] < key[j] \/ (key[i] = key[j] /\ i < j)
    BY SameOrder DEF SortKey
  <2> HIDE DEF D, key, R
  <2>. QED
    BY <1>2, <2>1
<1> HIDE DEF D, key, R
<1>5. Orders(R, D)
  <2>1. \A i, j \in D : i \in Int /\ j \in Int
    BY <1>1
  <2>2. \A i \in D : <<i, i>> \notin R
    BY <1>2, <1>3, <2>1
  <2>3. ASSUME NEW i \in D, NEW j \in D
        PROVE  i = j \/ <<i, j>> \in R \/ <<j, i>> \in R
    <3>1. key[i] < key[j] \/ (key[i] = key[j] /\ i < j) \/ i = j
          \/ key[j] < key[i] \/ (key[j] = key[i] /\ j < i)
      BY <1>3, <2>1
    <3>. QED
      BY <1>2, <3>1
  <2>4. ASSUME NEW i \in D, NEW j \in D, NEW k \in D, <<i, j>> \in R, <<j, k>> \in R
        PROVE  <<i, k>> \in R
    <3>1. key[i] < key[j] \/ (key[i] = key[j] /\ i < j)
      BY <1>2, <2>4
    <3>2. key[j] < key[k] \/ (key[j] = key[k] /\ j < k)
      BY <1>2, <2>4
    <3>3. key[i] < key[k] \/ (key[i] = key[k] /\ i < k)
      BY <1>3, <2>1, <3>1, <3>2
    <3>. QED
      BY <1>2, <3>3
  <2>. QED
    BY <2>2, <2>3, <2>4 DEF Orders
<1>6. /\ DOMAIN InOrder(D, R) = 1..Cardinality(D)
      /\ \A k \in 1..Cardinality(D) : InOrder(D, R)[k] \in D
  BY <1>1, <1>5, InOrderFacts
<1>7. Batch(pairs) = [k \in DOMAIN InOrder(D, R) |-> pairs[InOrder(D, R)[k]][2]]
  BY DEF Batch, SortedBy, D, R, JoinOrder, SortKey
<1>8. /\ DOMAIN Batch(pairs) = 1..Cardinality(D)
      /\ \A k \in 1..Cardinality(D) :
            /\ InOrder(D, R)[k] \in D
            /\ Batch(pairs)[k] = pairs[InOrder(D, R)[k]][2]
      /\ Batch(pairs) = [k \in DOMAIN Batch(pairs) |-> Batch(pairs)[k]]
  BY <1>6, <1>7
<1>. QED
  BY <1>1, <1>4, <1>5, <1>8 DEF D, R

\* The batch of a pass is decided by what each observer said, and not by who
\* was first.
THEOREM BatchIsOwed ==
    ASSUME NEW pairs \in Pairs
    PROVE  Batch(pairs) = Owed(Said(pairs))
<1> DEFINE D == DOMAIN pairs
           R == JoinOrder(pairs)
           T == Said(pairs)
           Q == {p \in T \X T : Precedes(p[1], p[2])}
           h == [m \in D |-> Remark(pairs, m)]
<1>1. T = {h[m] : m \in D}
  BY DEF Said, Remark, Nth
<1>2. IsFiniteSet(D) /\ D \subseteq Int /\ Orders(R, D)
  BY JoinOrderFacts
<1>3. \A i, j \in D : <<i, j>> \in R <=> Precedes(h[i], h[j])
  BY JoinOrderFacts
<1>4. h \in Bijection(D, T)
  <2>1. h \in [D -> T]
    BY <1>1
  <2>2. ASSUME NEW i \in D, NEW j \in D, h[i] = h[j]
        PROVE  i = j
    <3>1. pairs[i][1] = pairs[j][1] /\ Nth(pairs, i) = Nth(pairs, j)
      BY <2>2 DEF Remark
    <3>2. i < j => Nth(pairs, i) \in Nat /\ Nth(pairs, j) \in Nat
                   /\ Nth(pairs, i) < Nth(pairs, j)
      BY <3>1, NthGrows
    <3>3. j < i => Nth(pairs, i) \in Nat /\ Nth(pairs, j) \in Nat
                   /\ Nth(pairs, j) < Nth(pairs, i)
      BY <3>1, NthGrows
    <3>4. i \in Int /\ j \in Int
      BY <1>2
    <3>. QED
      BY <3>1, <3>2, <3>3, <3>4
  <2> HIDE DEF h, T
  <2>3. \A t \in T : \E i \in D : h[i] = t
    BY <1>1
  <2>. QED
    BY <2>1, <2>2, <2>3 DEF Bijection, Injection, Surjection, IsInjective
<1>5. ASSUME NEW i \in D, NEW j \in D
      PROVE  <<h[i], h[j]>> \in Q <=> <<i, j>> \in R
  <2> HIDE DEF h, R, T
  <2>1. h[i] \in T /\ h[j] \in T
    BY <1>1
  <2>2. <<h[i], h[j]>> \in T \X T /\ <<h[i], h[j]>>[1] = h[i] /\ <<h[i], h[j]>>[2] = h[j]
    BY <2>1
  <2>3. <<h[i], h[j]>> \in Q <=> Precedes(h[i], h[j])
    BY <2>2
  <2> HIDE DEF Q
  <2>. QED
    BY <1>3, <2>3
<1>6. \A i \in D : h[i].body = pairs[i][2]
  BY DEF Remark
<1>7. Owed(T) = [k \in DOMAIN InOrder(T, Q) |-> InOrder(T, Q)[k].body]
  BY DEF Owed
<1>8. /\ DOMAIN Batch(pairs) = 1..Cardinality(D)
      /\ \A k \in 1..Cardinality(D) :
            InOrder(D, R)[k] \in D /\ Batch(pairs)[k] = pairs[InOrder(D, R)[k]][2]
      /\ Batch(pairs) = [k \in DOMAIN Batch(pairs) |-> Batch(pairs)[k]]
  BY JoinOrderFacts
<1> HIDE DEF D, R, T, Q, h
<1>9. /\ IsFiniteSet(T) /\ Orders(Q, T) /\ Cardinality(T) = Cardinality(D)
      /\ \A k \in 1..Cardinality(D) : InOrder(T, Q)[k] = h[InOrder(D, R)[k]]
  <2>1. \A i, j \in D : <<h[i], h[j]>> \in Q <=> <<i, j>> \in R
    BY <1>5
  <2>2. IsFiniteSet(D)
    BY <1>2
  <2>3. Orders(R, D)
    BY <1>2
  <2>. QED
    BY ONLY <2>2, <2>3, <1>4, <2>1, OrderTransport, InOrderTransport
<1>10. DOMAIN InOrder(T, Q) = 1..Cardinality(D)
  BY <1>9, InOrderFacts
<1>11. \A k \in 1..Cardinality(D) : InOrder(T, Q)[k].body = Batch(pairs)[k]
  BY <1>6, <1>8, <1>9
<1>. QED
  BY <1>7, <1>8, <1>10, <1>11 DEF T

\* A batch repeats what was said.
LEMMA BatchSays ==
    ASSUME NEW pairs \in Pairs, NEW B, \A i \in DOMAIN pairs : pairs[i][2] \in B
    PROVE  Batch(pairs) \in Seq(B)
<1>1. Cardinality(DOMAIN pairs) \in Nat
  BY JoinOrderFacts, FS_CardinalityType
<1>2. Batch(pairs) \in [1..Cardinality(DOMAIN pairs) -> B]
  BY JoinOrderFacts
<1>. QED
  BY <1>1, <1>2

-----------------------------------------------------------------------------
(* Types *)

\* A tool call under way, by the hook that comes next.
CommitChecked ==
    {c \in [tool: {"commit"}, pc: {"checked"}, line: Lines, ran: Nat,
            header: Spelling \cup {None}, looked: Nat] : c.ran < Len(c.line)}
CommitRan ==
    [tool: {"commit"}, pc: {"ran"}, line: Lines, ran: Nat, header: Spelling, looked: Nat]
RevertRan == [tool: {"revert"}, pc: {"ran"}, original: Spelling, header: Spelling]
RevertFound ==
    [tool: {"revert"}, pc: {"found"}, original: Spelling, header: Spelling,
     milestone: Milestones]
RewriteChecked == [tool: {"rewrite"}, pc: {"checked"}, looked: Nat]
DetectLoaded ==
    [tool: {"detect"}, pc: {"loaded"}, prior: Models, current: Models, looked: Nat]
Lost == [tool: {"lost"}]

Call ==
    {NoCall} \cup CommitChecked \cup CommitRan \cup RevertRan \cup RevertFound
    \cup RewriteChecked \cup DetectLoaded \cup Lost

LogTypes == log \in Seq(Event) /\ queue \in Seq(EventBody)
GitTypes == object \in [Made -> Message] /\ Made \in SUBSET Shas /\ branch \in Seq(Made)
CallTypes == call \in [Sessions -> Call]
PassTypes ==
    /\ pass \in [running: SUBSET Observers, snapshot: Nat, joined: Pairs, open: BOOLEAN]
    /\ pass.snapshot <= Len(log)

Types == LogTypes /\ GitTypes /\ CallTypes /\ PassTypes

\* The tool and the place of a call tell its fields.
LEMMA CallTells ==
    ASSUME NEW c \in Call
    PROVE  /\ c.tool = "commit" /\ c.pc = "checked" => c \in CommitChecked
           /\ c.tool = "commit" /\ c.pc = "ran" => c \in CommitRan
           /\ c.tool = "revert" /\ c.pc = "ran" => c \in RevertRan
           /\ c.tool = "revert" /\ c.pc = "found" => c \in RevertFound
           /\ c.tool = "rewrite" /\ c.pc = "checked" => c \in RewriteChecked
           /\ c.tool = "detect" /\ c.pc = "loaded" => c \in DetectLoaded
BY DEF Call, NoCall, CommitChecked, CommitRan, RevertRan, RevertFound, RewriteChecked,
       DetectLoaded, Lost

\* What is on a command line, and what the hooks make of it.
LEMMA LineFacts ==
    ASSUME NEW line \in Lines
    PROVE  /\ line \in Seq(Message) /\ Len(line) \in Nat /\ Len(line) > 0
           /\ line[1] \in Message /\ Joined(line) \in Message /\ Joined(line) # None
           /\ ParseConventional(Joined(line)) = ParseConventional(line[1])
           /\ line[1].typed = "own" =>
                  /\ Len(line) = 1
                  /\ Accepted(Joined(line)) => Joined(line).trailer = line[1].trailer
           /\ \A k \in DOMAIN line : Len(line) > 1 => line[k].typed = "shared"
<1>1. /\ line \in Seq(Message) /\ line # <<>>
      /\ Len(line) > 1 => \A k \in DOMAIN line : line[k].typed = "shared"
  BY HooksAssumption
<1>2. Len(line) \in Nat /\ Len(line) > 0 /\ DOMAIN line = 1..Len(line) /\ 1 \in DOMAIN line
  BY <1>1
<1>3. line[1] \in Message /\ \A k \in DOMAIN line : line[k] \in Message
  BY <1>1, <1>2
<1> DEFINE told == {k \in DOMAIN line : HasTrailer(line[k])}
<1>4. told # {} => Earliest(told) \in told
  <2>1. told \in SUBSET Nat
    BY <1>2
  <2> HIDE DEF told
  <2>. QED
    BY <2>1, EarliestExists DEF Earliest
<1>5. PICK t : t = IF told = {} THEN None ELSE line[Earliest(told)].trailer
  OBVIOUS
<1>6. Joined(line) = [line[1] EXCEPT !.trailer = t]
  BY <1>5 DEF Joined
<1>7. t \in Milestones \cup {None, "unknown"}
  BY <1>3, <1>4, <1>5 DEF Message
<1>8. Joined(line) \in Message
  BY <1>3, <1>6, <1>7 DEF Message
<1>9. Joined(line) # None
  BY <1>8, MessageAssumption
<1>10. ParseConventional(Joined(line)) = ParseConventional(line[1])
  <2>1. /\ Joined(line).kind = line[1].kind /\ Joined(line).bang = line[1].bang
        /\ Joined(line).quoted = line[1].quoted /\ Joined(line).described = line[1].described
    BY <1>3, <1>6 DEF Message
  <2>. QED
    BY <2>1 DEF ParseConventional
<1>11. ASSUME line[1].typed = "own"
       PROVE  /\ Len(line) = 1
              /\ Accepted(Joined(line)) => Joined(line).trailer = line[1].trailer
  <2>1. Len(line) = 1
    BY <1>1, <1>2, <1>11
  <2>2. told # {} => Earliest(told) = 1
    BY <1>2, <1>4, <2>1
  <2>3. Joined(line).trailer = t
    BY <1>3, <1>6 DEF Message
  <2>4. Accepted(Joined(line)) => t # None
    BY <2>3, ShasAssumption DEF Accepted
  <2>. QED
    BY <1>5, <2>1, <2>2, <2>3, <2>4
<1>. QED
  BY <1>1, <1>2, <1>3, <1>8, <1>9, <1>10, <1>11

\* What a line may be heard to say is a message, or nothing; a line that is not
\* indirect says what is on it.
LEMMA HeardFacts ==
    ASSUME NEW line \in Lines, NEW heard \in ExtractMessage(line, Texts)
    PROVE  /\ heard = None \/ heard \in Message
           /\ line[1].typed # "indirect" => heard = Joined(line)
<1>1. Texts \subseteq Message
  BY HooksAssumption DEF Texts
<1>. QED
  BY <1>1, LineFacts DEF ExtractMessage

\* What git is given when the next part of a line runs.
LEMMA WrittenFacts ==
    ASSUME NEW c \in CommitChecked, NEW msg \in Written(c.line[c.ran + 1])
    PROVE  /\ msg \in Message
           /\ msg.typed = "own" => c.line[1] = msg
<1>1. c.line \in Lines /\ c.ran \in Nat /\ c.ran < Len(c.line)
  BY DEF CommitChecked
<1>2. PICK line \in Lines : line = c.line
  BY <1>1
<1>3. PICK k : k = c.ran + 1
  OBVIOUS
<1>4. /\ line \in Seq(Message) /\ Len(line) \in Nat /\ Len(line) > 0
      /\ \A i \in DOMAIN line : Len(line) > 1 => line[i].typed = "shared"
  BY LineFacts
<1>5. k \in DOMAIN line /\ (Len(line) = 1 => k = 1)
  BY <1>1, <1>2, <1>3, <1>4
<1>6. line[k] \in Message
  BY <1>4, <1>5
<1>7. CASE line[k].typed = "indirect"
  <2>1. msg \in Messages /\ msg.typed = "indirect"
    BY <1>2, <1>3, <1>7 DEF Written, Texts
  <2>. QED
    BY <2>1, HooksAssumption
<1>8. CASE line[k].typed # "indirect"
  <2>1. msg = line[k]
    BY <1>2, <1>3, <1>8 DEF Written
  <2>2. msg.typed = "own" => Len(line) = 1
    <3>1. Len(line) > 1 => msg.typed = "shared"
      BY <1>4, <1>5, <2>1
    <3>2. Len(line) > 1 \/ Len(line) = 1
      <4>1. PICK n : n = Len(line)
        OBVIOUS
      <4>2. n \in Nat /\ n > 0
        BY <1>4, <4>1
      <4>3. n > 1 \/ n = 1
        BY <4>2
      <4>. QED
        BY <4>1, <4>3
    <3>. QED
      BY <3>1, <3>2
  <2>. QED
    BY <1>2, <1>5, <1>6, <2>1, <2>2
<1>. QED
  BY <1>7, <1>8

\* git grows by a commit on top of the branch.
LEMMA CommitTypes ==
    ASSUME GitTypes, NEW sha \in Shas, NEW msg \in Message, CommitAs(sha, msg)
    PROVE  /\ GitTypes' /\ Made' = Made \cup {sha} /\ object'[sha] = msg
           /\ \A x \in Made : object'[x] = object[x]
<1>1. object' = [x \in Made \cup {sha} |-> IF x = sha THEN msg ELSE object[x]]
  BY DEF CommitAs
<1>2. Made' = Made \cup {sha}
  BY <1>1 DEF Made
<1>3. sha \notin Made /\ branch' = Append(branch, sha)
  BY DEF CommitAs
<1> DEFINE M == Made
<1>4. /\ object \in [M -> Message] /\ M \in SUBSET Shas /\ branch \in Seq(M)
      /\ object' = [x \in M \cup {sha} |-> IF x = sha THEN msg ELSE object[x]]
      /\ sha \notin M /\ Made' = M \cup {sha}
  BY <1>1, <1>2, <1>3 DEF GitTypes
<1> HIDE DEF M
<1>5. /\ object' \in [M \cup {sha} -> Message] /\ object'[sha] = msg
      /\ \A x \in M : object'[x] = object[x]
  BY <1>4
<1>6. branch' \in Seq(M \cup {sha})
  BY <1>3, <1>4
<1>7. M \cup {sha} \in SUBSET Shas
  BY <1>4
<1>. QED
  BY <1>4, <1>5, <1>6, <1>7 DEF GitTypes, M

\* A rewrite leaves every object.
LEMMA RewriteTypes ==
    ASSUME GitTypes, NEW n \in 0..Len(branch), Rewrite(n)
    PROVE  GitTypes' /\ object' = object /\ Made' = Made
<1>1. branch' \in Seq(Made)
  BY DEF GitTypes, Rewrite
<1>. QED
  BY <1>1 DEF GitTypes, Rewrite, Made

\* The message git writes for a revert.
LEMMA RevertMessageTypes ==
    ASSUME GitTypes, NEW sha \in Made
    PROVE  RevertMessage(sha) \in Message
BY DEF GitTypes, RevertMessage, Message

\* What the projections of a log of switches are.
LEMMA TimelineFacts ==
    ASSUME NEW l \in Seq(Event)
    PROVE  LET S == EffectiveOf(l, "ModelSwitched")
           IN  /\ S \in SUBSET (1..Len(l)) /\ Cardinality(S) \in Nat
               /\ ModelTimeline(l) \in Seq(Models)
               /\ Len(ModelTimeline(l)) = Cardinality(S)
               /\ \A k \in 1..Cardinality(S) : ModelTimeline(l)[k] = l[Ascending(S)[k]].body.to
<1> DEFINE S == EffectiveOf(l, "ModelSwitched")
           A == Ascending(S)
<1>1. Len(l) \in Nat /\ S \in SUBSET (1..Len(l))
  BY DEF EffectiveOf, OfKind
<1>2. /\ Cardinality(S) \in Nat /\ DOMAIN A = 1..Cardinality(S)
      /\ \A k \in 1..Cardinality(S) : A[k] \in S
  <2> HIDE DEF S
  <2>. QED
    BY <1>1, AscendingFacts
<1>3. \A i \in S : l[i].body.to \in Models
  <2> SUFFICES ASSUME NEW i \in S PROVE l[i].body.to \in Models
    OBVIOUS
  <2>1. l[i].body.kind = "ModelSwitched" /\ i \in 1..Len(l)
    BY DEF EffectiveOf, OfKind
  <2>2. l[i] \in Event
    BY <2>1
  <2>3. l[i].body \in EventBody
    BY <2>2 DEF Event
  <2>4. l[i].body \in ModelSwitched
    BY <2>1, <2>3, KindTells
  <2>. QED
    BY <2>4 DEF ModelSwitched
<1>4. ModelTimeline(l) = [k \in DOMAIN A |-> l[A[k]].body.to]
  BY DEF ModelTimeline, Standing
<1> HIDE DEF S, A
<1>5. ModelTimeline(l) \in [1..Cardinality(S) -> Models]
  BY <1>2, <1>3, <1>4
<1>6. \A k \in 1..Cardinality(S) : ModelTimeline(l)[k] = l[A[k]].body.to
  BY <1>2, <1>4
<1>7. ModelTimeline(l) \in Seq(Models) /\ Len(ModelTimeline(l)) = Cardinality(S)
  BY <1>2, <1>5
<1>. QED
  BY <1>1, <1>2, <1>6, <1>7 DEF S, A

\* The model before, where there was one, is a model.
LEMMA PriorModelIsModel ==
    ASSUME NEW current, log \in Seq(Event), PriorModel \notin {None, current}
    PROVE  PriorModel \in Models
<1> DEFINE T == ModelTimeline(log)
<1>1. T \in Seq(Models)
  BY TimelineFacts
<1>2. T # <<>> /\ PriorModel = T[Len(T)]
  BY DEF PriorModel
<1> HIDE DEF T
<1>3. Len(T) \in DOMAIN T
  BY <1>1, <1>2
<1>. QED
  BY <1>1, <1>2, <1>3

-----------------------------------------------------------------------------
(* What is said of git *)

\* What the log may say: the truth of git, and of a ship nothing that only
\* HEAD could name.
Claim(b) == TrueOfGit(b) /\ (b.kind = "MilestoneShipped" => b.commit # RefName)

Claimed == {b \in EventBody : Claim(b)}

\* The kinds that speak of commits.
Delivered == {"MilestoneShipped", "MilestoneReverted", "MilestoneVerified"}

\* Whatever does not speak of commits may be said.
LEMMA OthersClaimNothing ==
    ASSUME NEW b \in EventBody, b.kind \notin Delivered
    PROVE  b \in Claimed
BY DEF Delivered, Claimed, Claim, TrueOfGit

\* The body of an event of a log.
LEMMA BodyOf ==
    ASSUME NEW l \in Seq(Event), NEW i \in DOMAIN l
    PROVE  l[i].body \in EventBody
<1>1. l[i] \in Event
  OBVIOUS
<1>. QED
  BY <1>1 DEF Event

\* A budget lets a list through or fails.
LEMMA WithinBudget ==
    ASSUME NEW B, NEW n \in Nat, NEW f \in [1..n -> B]
    PROVE  f \in Seq(B) /\ (Budgeted(f) = Failed \/ Budgeted(f) = f)
BY DEF Budgeted

\* The artifact observer speaks of phases only.
LEMMA ArtifactsSay ==
    ASSUME NEW l, NEW present \in Seq(Phases)
    PROVE  \/ ArtifactProposals(l, present) = Failed
           \/ ArtifactProposals(l, present) \in Seq(Claimed)
<1> DEFINE S == {i \in DOMAIN present : present[i] \notin PhasesResolved(l)}
           open == Ascending(S)
           Body(k) == [kind |-> "PhaseCompleted", phase |-> present[open[k]],
                       artifacts |-> Artifacts]
           f == [k \in DOMAIN open |-> Body(k)]
<1>1. S \in SUBSET (1..Len(present)) /\ Len(present) \in Nat
  OBVIOUS
<1>2. /\ Cardinality(S) \in Nat /\ DOMAIN open = 1..Cardinality(S)
      /\ \A k \in 1..Cardinality(S) : open[k] \in S
  <2> HIDE DEF S
  <2>. QED
    BY <1>1, AscendingFacts
<1>3. ASSUME NEW k \in 1..Cardinality(S)
      PROVE  Body(k) \in Claimed
  <2>1. present[open[k]] \in Phases
    BY <1>2
  <2>2. Body(k) \in PhaseCompleted
    BY <2>1, ObserversAssumption DEF PhaseCompleted
  <2>3. Body(k) \in EventBody
    BY <2>2 DEF EventBody
  <2>4. Body(k).kind \notin Delivered
    BY DEF Delivered
  <2>. QED
    BY <2>3, <2>4, OthersClaimNothing
<1>4. ArtifactProposals(l, present) = Budgeted(f)
  BY DEF ArtifactProposals
<1> HIDE DEF S, open, Body
<1>5. f \in [1..Cardinality(S) -> Claimed]
  BY <1>2, <1>3
<1> HIDE DEF f
<1>6. f \in Seq(Claimed) /\ (Budgeted(f) = Failed \/ Budgeted(f) = f)
  BY <1>2, <1>5, WithinBudget
<1>. QED
  BY <1>4, <1>6

\* The observer of pending commits vouches for what git has, if no ship is
\* spelled HEAD.
LEMMA PendingSay ==
    ASSUME NEW l \in Seq(Event)
    PROVE  \/ PendingProposals(l) = Failed
           \/ /\ PendingProposals(l) \in Seq(EventBody)
              /\ (\A i \in DOMAIN l : Claim(l[i].body)) => PendingProposals(l) \in Seq(Claimed)
<1> DEFINE verified == {<<l[i].body.milestone, l[i].body.commit>> :
                            i \in EffectiveOf(l, "MilestoneVerified")}
           S == {i \in EffectiveOf(l, "MilestoneShipped") :
                    /\ l[i].body.status = "Pending"
                    /\ <<l[i].body.milestone, l[i].body.commit>> \notin verified
                    /\ VerifyCommit(l[i].body.commit) = "Verified"}
           order == Ascending(S)
           Body(k) == [kind |-> "MilestoneVerified", milestone |-> l[order[k]].body.milestone,
                       commit |-> l[order[k]].body.commit]
           f == [k \in DOMAIN order |-> Body(k)]
           Honest == \A i \in DOMAIN l : Claim(l[i].body)
<1>1. S \in SUBSET (1..Len(l)) /\ Len(l) \in Nat
  BY DEF EffectiveOf, OfKind
<1>2. /\ Cardinality(S) \in Nat /\ DOMAIN order = 1..Cardinality(S)
      /\ \A k \in 1..Cardinality(S) : order[k] \in S
  <2> HIDE DEF S
  <2>. QED
    BY <1>1, AscendingFacts
<1>3. ASSUME NEW k \in 1..Cardinality(S)
      PROVE  Body(k) \in EventBody /\ (Honest => Body(k) \in Claimed)
  <2> DEFINE i == order[k]
             b == l[i].body
  <2>1. i \in DOMAIN l /\ b.kind = "MilestoneShipped" /\ VerifyCommit(b.commit) = "Verified"
    <3>1. i \in S
      BY <1>2
    <3>. QED
      BY <3>1 DEF EffectiveOf, OfKind
  <2>2. b \in MilestoneShipped
    BY <2>1, BodyOf, KindTells
  <2>3. Body(k) \in MilestoneVerified
    BY <2>2 DEF MilestoneShipped, MilestoneVerified
  <2>4. Body(k) \in EventBody
    BY <2>3 DEF EventBody
  <2>5. ASSUME Honest
        PROVE  Claim(Body(k))
    <3>1. b.commit # RefName
      BY <2>1, <2>5 DEF Claim
    <3>2. \E sha \in Made : Names(b.commit, sha)
      BY <2>1, <3>1 DEF VerifyCommit
    <3>3. Body(k).kind = "MilestoneVerified" /\ Body(k).commit = b.commit
      OBVIOUS
    <3> HIDE DEF Body
    <3>. QED
      BY <3>2, <3>3 DEF Claim, TrueOfGit
  <2>. QED
    BY <2>4, <2>5 DEF Claimed
<1>4. PendingProposals(l) = Budgeted(f)
  BY DEF PendingProposals
<1> HIDE DEF S, order, Body, Honest
<1>5. /\ f \in [1..Cardinality(S) -> EventBody]
      /\ Honest => f \in [1..Cardinality(S) -> Claimed]
  BY <1>2, <1>3
<1> HIDE DEF f
<1>6. f \in Seq(EventBody) /\ (Budgeted(f) = Failed \/ Budgeted(f) = f)
  BY <1>2, <1>5, WithinBudget
<1>7. Honest => f \in Seq(Claimed)
  BY <1>2, <1>5, WithinBudget
<1>. QED
  BY <1>4, <1>6, <1>7 DEF Honest

\* What a kind of commit may be.
LEMMA KindsOfCommits == Implementation \subseteq ConventionalKinds
BY DEF ConventionalKinds

\* A spelling of a commit is one of those a proposal may carry, and names it.
LEMMA SpellingFacts ==
    ASSUME NEW sha \in Shas
    PROVE  /\ Full(sha) \in Spelling /\ Short(sha) \in Spelling
           /\ Full(sha) \in Commits /\ Short(sha) \in Commits
           /\ Full(sha) # RefName /\ Short(sha) # RefName
           /\ Names(Full(sha), sha) /\ Names(Short(sha), sha)
<1>1. Full(sha) \in Spelling /\ Short(sha) \in Spelling
  BY DEF Spelling
<1>2. Full(sha) # RefName /\ Short(sha) # RefName
  <2>1. Full(sha).form # RefName.form /\ Short(sha).form # RefName.form
    BY DEF Full, Short, RefName
  <2>. QED
    BY <2>1
<1>3. Names(Full(sha), sha) /\ Names(Short(sha), sha)
  BY DEF Names, Full, Short
<1>. QED
  BY <1>1, <1>2, <1>3, SpellingAssumption

\* One commit the walk of the branch comes to.
LEMMA CommitsSay ==
    ASSUME GitTypes, NEW sha \in Made, NEW b \in ShipsOrReverts(sha)
    PROVE  b \in Claimed
<1> DEFINE msg == object[sha]
           ship == [kind |-> "MilestoneShipped", milestone |-> msg.about, commit |-> Full(sha),
                    commit_kind |-> ParsedKind(msg), status |-> "Verified"]
           revert == RevertProposal(Full(sha), RevertTarget(msg), msg.about)
<1>1. msg \in Message /\ sha \in Shas
  BY DEF GitTypes
<1>2. /\ msg.about # None /\ msg.about \in Milestones
      /\ \/ ParsedKind(msg) \in Implementation /\ b = ship
         \/ ParsedKind(msg) = "revert" /\ RevertTarget(msg) # None /\ b = revert
  <2>1. msg.about # None
    BY DEF ShipsOrReverts
  <2>2. msg.about \in Milestones
    BY <1>1, <2>1 DEF Message
  <2>. QED
    BY <2>1, <2>2 DEF ShipsOrReverts
<1>3. CASE ParsedKind(msg) \in Implementation /\ b = ship
  <2>1. ship \in MilestoneShipped
    BY <1>1, <1>2, <1>3, SpellingFacts, KindsOfCommits, SpellingAssumption
       DEF MilestoneShipped, CommitStatus
  <2>2. ship \in EventBody
    BY <2>1 DEF EventBody
  <2>3. /\ ship.kind = "MilestoneShipped" /\ ship.milestone = msg.about
        /\ ship.commit = Full(sha) /\ ship.commit_kind = ParsedKind(msg)
    OBVIOUS
  <2>4. Ships(sha, ship.milestone, ship.commit_kind)
    BY <2>3 DEF Ships
  <2> HIDE DEF ship
  <2>5. Claim(ship)
    BY <1>1, <2>3, <2>4, SpellingFacts DEF Claim, TrueOfGit
  <2>. QED
    BY <1>3, <2>2, <2>5 DEF Claimed
<1>4. CASE ParsedKind(msg) = "revert" /\ RevertTarget(msg) # None /\ b = revert
  <2>1. msg.cites \in Shas /\ RevertTarget(msg) = Full(msg.cites)
    BY <1>1, <1>4 DEF RevertTarget, Message
  <2>2. revert \in MilestoneReverted
    BY <1>1, <1>2, <2>1, SpellingFacts DEF MilestoneReverted, RevertProposal
  <2>3. revert \in EventBody
    BY <2>2 DEF EventBody
  <2>4. /\ revert.kind = "MilestoneReverted" /\ revert.revert = Full(sha)
        /\ revert.original = Full(msg.cites)
    BY <2>1 DEF RevertProposal
  <2> HIDE DEF revert
  <2>5. Names(revert.original, object[sha].cites)
    BY <2>1, <2>4, SpellingFacts
  <2>6. Claim(revert)
    BY <1>1, <1>4, <2>4, <2>5, SpellingFacts DEF Claim, TrueOfGit
  <2>. QED
    BY <1>4, <2>3, <2>6 DEF Claimed
<1>. QED
  BY <1>2, <1>3, <1>4

\* The git log observer says what the commits of the branch say.
LEMMA GitLogSays ==
    ASSUME GitTypes
    PROVE  GitLogProposals = Failed \/ GitLogProposals \in Seq(Claimed)
<1> DEFINE commits == LogSince(None)
           S == {i \in DOMAIN commits : ShipsOrReverts(commits[i]) # {}}
           telling == Ascending(S)
           Body(k) == CHOOSE b \in ShipsOrReverts(commits[telling[k]]) : TRUE
           f == [k \in DOMAIN telling |-> Body(k)]
<1>1. commits \in Seq(Made)
  <2>1. commits = Reverse(SubSeq(branch, 1, Len(branch)))
    BY DEF LogSince
  <2>2. SubSeq(branch, 1, Len(branch)) \in Seq(Made)
    BY DEF GitTypes
  <2>3. \A q \in Seq(Made) : Reverse(q) \in Seq(Made)
    BY DEF Reverse
  <2> HIDE DEF commits
  <2>. QED
    BY <2>1, <2>2, <2>3
<1> HIDE DEF commits
<1>2. S \in SUBSET (1..Len(commits)) /\ Len(commits) \in Nat
  BY <1>1
<1>3. /\ Cardinality(S) \in Nat /\ DOMAIN telling = 1..Cardinality(S)
      /\ \A k \in 1..Cardinality(S) : telling[k] \in S
  <2> HIDE DEF S
  <2>. QED
    BY <1>2, AscendingFacts
<1>4. ASSUME NEW k \in 1..Cardinality(S)
      PROVE  Body(k) \in Claimed
  <2>1. telling[k] \in DOMAIN commits /\ ShipsOrReverts(commits[telling[k]]) # {}
    BY <1>3
  <2>2. commits[telling[k]] \in Made
    BY <1>1, <2>1
  <2>3. Body(k) \in ShipsOrReverts(commits[telling[k]])
    BY <2>1
  <2> HIDE DEF Body
  <2>. QED
    BY <2>2, <2>3, CommitsSay
<1>5. GitLogProposals = Failed \/ GitLogProposals = Budgeted(f)
  BY DEF GitLogProposals, commits
<1> HIDE DEF S, telling, Body
<1>6. f \in [1..Cardinality(S) -> Claimed]
  BY <1>3, <1>4
<1> HIDE DEF f
<1>7. f \in Seq(Claimed) /\ (Budgeted(f) = Failed \/ Budgeted(f) = f)
  BY <1>3, <1>6, WithinBudget
<1>. QED
  BY <1>5, <1>7

\* What an observer returns: a failure, bodies, and no claim on git that is
\* not so, unless it is the subprocess, which says what it likes.
LEMMA ObserversSay ==
    ASSUME Types, NEW name \in Observers, NEW result \in Results(name), result # Failed
    PROVE  /\ result \in Seq(EventBody)
           /\ \/ result \in Seq(Claimed)
              \/ result \in ScanProposals
              \/ ~ \A i \in DOMAIN log : Claim(log[i].body)
<1>1. Seq(Claimed) \subseteq Seq(EventBody)
  BY DEF Claimed
<1>2. CASE name = "artifact"
  <2>1. PICK found \in PresentFiles : result = ArtifactProposals(Snapshot, found)
    BY <1>2 DEF Results
  <2>2. found \in Seq(Phases)
    BY ReconcilerAssumption
  <2>. QED
    BY <1>1, <2>1, <2>2, ArtifactsSay
<1>3. CASE name = "git-log"
  <2>1. result = GitLogProposals
    BY <1>3 DEF Results
  <2>. QED
    BY <1>1, <2>1, GitLogSays DEF Types
<1>4. CASE name = "pending-commit"
  <2>1. result = PendingProposals(Snapshot)
    BY <1>4 DEF Results
  <2>2. pass.snapshot \in 0..Len(log) /\ log \in Seq(Event)
    BY DEF Types, PassTypes, LogTypes
  <2>3. /\ Snapshot \in Seq(Event)
        /\ DOMAIN Snapshot = 1..pass.snapshot
        /\ \A i \in 1..pass.snapshot : Snapshot[i] = log[i]
    BY <2>2, PrefixFacts DEF Snapshot
  <2>4. \A i \in 1..pass.snapshot : i \in DOMAIN log
    BY <2>2
  <2>5. (\A i \in DOMAIN log : Claim(log[i].body)) =>
            \A i \in DOMAIN Snapshot : Claim(Snapshot[i].body)
    BY <2>3, <2>4
  <2>. QED
    BY <2>1, <2>3, <2>5, PendingSay
<1>5. CASE name = "scan"
  <2>1. PICK run \in Subprocess, said \in ScanProposals : result = SubprocessProposals(run, said)
    BY <1>5 DEF Results
  <2>2. result = <<>> \/ result = said
    BY <2>1 DEF SubprocessProposals
  <2>3. <<>> \in Seq(Claimed) /\ <<>> \in Seq(EventBody) /\ said \in Seq(EventBody)
    BY ReconcilerAssumption
  <2>. QED
    BY <2>2, <2>3
<1>. QED
  BY <1>2, <1>3, <1>4, <1>5 DEF Observers

-----------------------------------------------------------------------------
(* What a step records *)

\* What may come into the log or the queue next: what does not speak of
\* commits, what is queued or joined, and what a hook is about to say.
Spoken(b) ==
    \/ b.kind \notin Delivered
    \/ \E i \in DOMAIN queue : b = queue[i]
    \/ \E i \in DOMAIN pass.joined : b = pass.joined[i][2]
    \/ \E s \in Sessions :
          /\ call[s] \in CommitRan
          /\ \E heard \in ExtractMessage(call[s].line, Texts) :
                b \in Proposals(heard, call[s].header)
    \/ \E s \in Sessions :
          /\ call[s] \in RevertFound
          /\ b = RevertProposal(call[s].header, call[s].original, call[s].milestone)

Voiced == {b \in EventBody : Spoken(b)}

\* The log and the queue take nothing but that.
Records == Grown(log, log', Voiced) /\ queue' \in Seq(EventBody) /\ Len(queue') \in Nat
           /\ \A i \in DOMAIN queue' : queue'[i] \in Voiced

\* What a message gives rise to is a ship.
LEMMA ProposalsAreShips ==
    ASSUME NEW msg \in Message, NEW header \in Spelling, NEW b \in VerifyProposal(msg, header)
    PROVE  /\ b \in EventBody
           /\ b = [kind |-> "MilestoneShipped", milestone |-> msg.trailer,
                   commit |-> header, commit_kind |-> ParseConventional(msg),
                   status |-> "Verified"]
           /\ Accepted(msg) /\ VerifyProposal(msg, header) = {b}
<1>2. /\ Accepted(msg) /\ ParseConventional(msg) # None
      /\ b = [kind |-> "MilestoneShipped", milestone |-> msg.trailer,
              commit |-> header, commit_kind |-> ParseConventional(msg),
              status |-> "Verified"]
      /\ VerifyProposal(msg, header) = {b}
  BY DEF VerifyProposal
<1>3. ParseConventional(msg) \in ConventionalKinds
  BY <1>2 DEF ParseConventional
<1>4. msg.trailer \in Milestones
  BY <1>2 DEF Accepted
<1>5. b \in MilestoneShipped
  BY <1>2, <1>3, <1>4, SpellingAssumption DEF MilestoneShipped, CommitStatus
<1>. QED
  BY <1>2, <1>5 DEF EventBody

LEMMA RevertsAreBodies ==
    ASSUME NEW c \in RevertFound
    PROVE  RevertProposal(c.header, c.original, c.milestone) \in EventBody
<1>1. RevertProposal(c.header, c.original, c.milestone) \in MilestoneReverted
  BY SpellingAssumption DEF RevertFound, MilestoneReverted, RevertProposal
<1>. QED
  BY <1>1 DEF EventBody

\* Nothing new.
LEMMA NothingRecorded ==
    ASSUME LogTypes, log' = log, queue' = queue
    PROVE  Records
<1>1. \A i \in DOMAIN queue : queue[i] \in EventBody /\ Spoken(queue[i])
  BY DEF LogTypes, Spoken
<1>2. Grown(log, log, Voiced)
  BY StaysTheSame DEF LogTypes
<1>. QED
  BY <1>1, <1>2 DEF Records, Voiced, LogTypes

\* One body is offered.
LEMMA OfferRecords ==
    ASSUME LogTypes, NEW b \in Voiced, Offer(b), queue' = queue
    PROVE  Records
<1>1. Grown(log, log', {b})
  BY OfferedFacts DEF Offer, Voiced, LogTypes
<1>2. Grown(log, log', Voiced)
  BY <1>1, GrownByMore
<1>3. \A i \in DOMAIN queue : queue[i] \in EventBody /\ Spoken(queue[i])
  BY DEF LogTypes, Spoken
<1>. QED
  BY <1>2, <1>3 DEF Records, Voiced, LogTypes

\* A spill leaves what was queued.
LEMMA SpilledFacts ==
    ASSUME LogTypes
    PROVE  /\ Spilled \in Seq(EventBody) /\ Len(Spilled) \in Nat
           /\ \A i \in DOMAIN Spilled : Spilled[i] \in Voiced
<1>1. queue \in Seq(EventBody)
  BY DEF LogTypes
<1>2. \A i \in DOMAIN queue : queue[i] \in Voiced
  BY <1>1 DEF Voiced, Spoken
<1>3. CASE Spilled = queue
  BY <1>1, <1>2, <1>3
<1>4. CASE queue # <<>> /\ Spilled = Tail(queue)
  <2>1. /\ Tail(queue) \in Seq(EventBody) /\ Len(Tail(queue)) \in Nat
        /\ \A i \in DOMAIN Tail(queue) : i + 1 \in DOMAIN queue /\ Tail(queue)[i] = queue[i + 1]
    BY <1>1, <1>4
  <2>. QED
    BY <1>2, <1>4, <2>1
<1>. QED
  BY <1>3, <1>4 DEF Spilled

\* One body is offered, queued or lost.
LEMMA PostRecords ==
    ASSUME LogTypes, NEW s, NEW b \in Voiced, PostToolAppend(s, b)
    PROVE  Records
<1>1. CASE Offer(b) /\ UNCHANGED queue
  BY <1>1, OfferRecords
<1>2. PICK kept : kept = Spilled
  OBVIOUS
<1>3. /\ kept \in Seq(EventBody) /\ Len(kept) \in Nat
      /\ \A i \in DOMAIN kept : kept[i] \in Voiced
  BY <1>2, SpilledFacts
<1>4. CASE queue' = Append(Spilled, b) /\ UNCHANGED log
  <2>1. Grown(log, log', Voiced)
    BY <1>4, StaysTheSame DEF LogTypes
  <2>2. queue' = Append(kept, b) /\ b \in EventBody
    BY <1>2, <1>4 DEF Voiced
  <2>3. queue' \in Seq(EventBody)
    BY <1>3, <2>2
  <2>4. \A i \in DOMAIN queue' : queue'[i] = b \/ (i \in DOMAIN kept /\ queue'[i] = kept[i])
    BY <1>3, <2>2
  <2>. QED
    BY <1>3, <2>1, <2>3, <2>4 DEF Records
<1>5. CASE queue' = Spilled /\ UNCHANGED log
  <2>1. Grown(log, log', Voiced)
    BY <1>5, StaysTheSame DEF LogTypes
  <2>. QED
    BY <1>2, <1>3, <1>5, <2>1 DEF Records
<1>6. CASE UNCHANGED <<log, queue>>
  BY <1>6, NothingRecorded
<1>. QED
  BY <1>1, <1>4, <1>5, <1>6 DEF PostToolAppend

\* What does not speak of commits can always be offered.
LEMMA OthersVoiced ==
    ASSUME NEW b \in EventBody, b.kind \notin Delivered
    PROVE  b \in Voiced
BY DEF Voiced, Spoken

LEMMA CommandRecords ==
    ASSUME LogTypes, Command, queue' = queue
    PROVE  Records
<1> USE DEF Delivered
<1>1. ASSUME NEW s \in Scopes, UnitInit(s)
      PROVE  Records
  <2> DEFINE b == [kind |-> "UnitCreated", scope |-> s]
  <2>1. b \in UnitCreated
    BY DEF UnitCreated
  <2>. QED
    BY <1>1, <2>1, OthersVoiced, OfferRecords DEF UnitInit, EventBody
<1>2. ASSUME NEW p \in Phases, NEW d \in Details, MarkCompleted(p, d)
      PROVE  Records
  <2> DEFINE b == [kind |-> "PhaseCompleted", phase |-> p, artifacts |-> d]
  <2>1. b \in PhaseCompleted
    BY DEF PhaseCompleted
  <2>. QED
    BY <1>2, <2>1, OthersVoiced, OfferRecords DEF MarkCompleted, EventBody
<1>3. ASSUME NEW p \in Phases, NEW r \in SkipReasons, MarkSkipped(p, r)
      PROVE  Records
  <2> DEFINE b == [kind |-> "PhaseSkipped", phase |-> p, reason |-> r]
  <2>1. b \in PhaseSkipped
    BY DEF PhaseSkipped
  <2>. QED
    BY <1>3, <2>1, OthersVoiced, OfferRecords DEF MarkSkipped, EventBody
<1>4. ASSUME NEW n \in RationaleLengths, NEW d \in Details, NEW g \in Gates,
             RecordGateDecision(g, d, n)
      PROVE  Records
  <2> DEFINE b == [kind |-> "GateRecorded", gate |-> g, decision |-> d, rationale |-> n]
  <2>1. b \in GateRecorded
    BY DEF GateRecorded
  <2>. QED
    BY <1>4, <2>1, OthersVoiced, OfferRecords DEF RecordGateDecision, EventBody
<1>5. \A i \in DOMAIN log : i \in Nat
  BY DEF LogTypes
<1>6. ASSUME NEW n \in RationaleLengths, NEW d \in Details, NEW i \in DOMAIN log,
             NEW a \in Approvers, Approve(i, a, d, n)
      PROVE  Records
  <2> DEFINE b == [kind |-> "ApprovalRecorded", target |-> i, approver |-> a, decision |-> d]
  <2>1. b \in ApprovalRecorded
    BY <1>5 DEF ApprovalRecorded
  <2>. QED
    BY <1>6, <2>1, OthersVoiced, OfferRecords DEF Approve, EventBody
<1>7. ASSUME NEW n \in RationaleLengths, NEW d \in Details, NEW i \in DOMAIN log,
             Supersede(i, d, n)
      PROVE  Records
  <2> DEFINE b == [kind |-> "EventSuperseded", target |-> i, reason |-> d]
  <2>1. b \in EventSuperseded
    BY <1>5 DEF EventSuperseded
  <2>. QED
    BY <1>7, <2>1, OthersVoiced, OfferRecords DEF Supersede, EventBody
<1>8. ASSUME NEW n \in RationaleLengths, NEW d \in Details, NEW s \in Statuses,
             NEW f \in BOOLEAN, NEW r \in {d, None}, Transition(s, f, r, n)
      PROVE  Records
  <2> DEFINE b == [kind |-> "StatusTransitioned", target |-> s, forced |-> f, rationale |-> r]
  <2>1. b \in StatusTransitioned
    BY DEF StatusTransitioned
  <2>. QED
    BY <1>8, <2>1, OthersVoiced, OfferRecords DEF Transition, EventBody
<1>. QED
  BY <1>1, <1>2, <1>3, <1>4, <1>6, <1>7, <1>8 DEF Command

\* A switch does not speak of commits.
LEMMA SwitchVoiced ==
    ASSUME NEW from \in Models, NEW to \in Models
    PROVE  Switch(from, to) \in Voiced
<1>1. Switch(from, to) \in ModelSwitched /\ Switch(from, to).kind = "ModelSwitched"
  BY DEF Switch, ModelSwitched
<1>. QED
  BY <1>1, OthersVoiced DEF EventBody, Delivered

LEMMA HookRecords ==
    ASSUME Types, NEW s \in Sessions, HookStep(s)
    PROVE  Records
<1>1. LogTypes /\ call[s] \in Call
  BY DEF Types, CallTypes
<1>2. CASE RecordCommit(s)
  <2>1. call[s] \in CommitRan
    BY <1>1, <1>2, CallTells DEF RecordCommit, Running
  <2>2. call[s].line \in Lines /\ call[s].header \in Spelling
    BY <2>1 DEF CommitRan
  <2>3. PICK heard \in ExtractMessage(call[s].line, Texts) :
            \/ \E b \in Proposals(heard, call[s].header) : PostToolAppend(s, b)
            \/ UNCHANGED <<log, queue>>
    BY <1>2 DEF RecordCommit
  <2>4. ASSUME NEW b \in Proposals(heard, call[s].header)
        PROVE  b \in Voiced
    <3>1. heard \in Message /\ b \in VerifyProposal(heard, call[s].header)
      BY <2>2, <2>4, HeardFacts DEF Proposals
    <3>2. b \in EventBody
      BY <2>2, <3>1, ProposalsAreShips
    <3>. QED
      BY <2>1, <2>4, <3>2 DEF Voiced, Spoken
  <2>. QED
    BY <1>1, <2>3, <2>4, PostRecords, NothingRecorded
<1>3. CASE RecordRevert(s)
  <2>1. call[s] \in RevertFound
    BY <1>1, <1>3, CallTells DEF RecordRevert, Running
  <2>2. RevertProposal(call[s].header, call[s].original, call[s].milestone) \in Voiced
    BY <2>1, RevertsAreBodies DEF Voiced, Spoken
  <2>. QED
    BY <1>1, <1>3, <2>2, PostRecords DEF RecordRevert
<1>4. CASE RecordSwitch(s)
  <2>1. call[s] \in DetectLoaded
    BY <1>1, <1>4, CallTells DEF RecordSwitch, Running
  <2>2. Switch(call[s].prior, call[s].current) \in Voiced
    BY <2>1, SwitchVoiced DEF DetectLoaded
  <2>. QED
    BY <1>1, <1>4, <2>2, OfferRecords, NothingRecorded DEF RecordSwitch
<1>5. CASE ~RecordCommit(s) /\ ~RecordRevert(s) /\ ~RecordSwitch(s)
  <2>1. log' = log /\ queue' = queue
    BY <1>5 DEF HookStep, CheckCommit, RunCommit, SkipPart, CommitFails, RunRevert,
                LookUpRevert, StartRewrite, RunRewrite, Detect, Warn
  <2>. QED
    BY <1>1, <2>1, NothingRecorded
<1>. QED
  BY <1>2, <1>3, <1>4, <1>5

LEMMA HarnessRecords ==
    ASSUME Types, Harness
    PROVE  Records
<1>1. LogTypes
  BY DEF Types
<1>2. CASE UnheardCommit \/ LooseRewrite
  BY <1>1, <1>2, NothingRecorded DEF UnheardCommit, LooseRewrite
<1>3. CASE HarnessSwitch
  BY <1>1, <1>3, SwitchVoiced, OfferRecords DEF HarnessSwitch
<1>4. CASE Subagent
  <2>1. PICK a \in Agents, d \in Details :
            Offer([kind |-> "SubagentCompleted", agent_id |-> a, report |-> d])
    BY <1>4 DEF Subagent
  <2> DEFINE b == [kind |-> "SubagentCompleted", agent_id |-> a, report |-> d]
  <2>2. b \in SubagentCompleted
    BY DEF SubagentCompleted
  <2>3. b \in Voiced
    BY <2>2, OthersVoiced DEF EventBody, Delivered
  <2>. QED
    BY <1>1, <1>4, <2>1, <2>3, OfferRecords DEF Subagent
<1>5. CASE ToolFailure
  <2>1. PICK c \in Calls, d \in Details :
            Offer([kind |-> "ToolCallFailed", call |-> c, attempt |-> 1, reason |-> d])
    BY <1>5 DEF ToolFailure
  <2> DEFINE b == [kind |-> "ToolCallFailed", call |-> c, attempt |-> 1, reason |-> d]
  <2>2. b \in ToolCallFailed
    BY DEF ToolCallFailed
  <2>3. b \in Voiced
    BY <2>2, OthersVoiced DEF EventBody, Delivered
  <2>. QED
    BY <1>1, <1>5, <2>1, <2>3, OfferRecords DEF ToolFailure
<1>6. CASE Drain
  <2>1. queue \in Seq(EventBody) /\ queue # <<>> /\ log \in Seq(Event)
    BY <1>1, <1>6 DEF Drain, LogTypes
  <2>2. 1 \in DOMAIN queue /\ Head(queue) = queue[1]
    BY <2>1
  <2>3. \A i \in DOMAIN queue : queue[i] \in Voiced
    BY <2>1 DEF Voiced, Spoken
  <2>4. Head(queue) \in Voiced /\ Head(queue) \in EventBody
    BY <2>2, <2>3 DEF Voiced
  <2>5. Grown(log, log', Voiced)
    <3>1. Grown(log, log', {Head(queue)})
      BY <1>6, <2>1, <2>4, OfferedFacts DEF Drain, Offer
    <3>. QED
      BY <2>4, <3>1, GrownByMore
  <2>6. /\ queue' \in Seq(EventBody) /\ Len(queue') \in Nat
        /\ \A i \in DOMAIN queue' : i + 1 \in DOMAIN queue /\ queue'[i] = queue[i + 1]
    BY <1>6, <2>1 DEF Drain
  <2>. QED
    BY <2>3, <2>5, <2>6 DEF Records
<1>. QED
  BY <1>2, <1>3, <1>4, <1>5, <1>6 DEF Harness

LEMMA ReconcileRecords ==
    ASSUME Types, Reconcile, queue' = queue
    PROVE  Records
<1>1. LogTypes
  BY DEF Types
<1>2. CASE Finish
  <2>1. pass.joined \in Pairs
    BY DEF Types, PassTypes
  <2>2. \A i \in DOMAIN pass.joined : pass.joined[i][2] \in Voiced
    BY <2>1 DEF Pairs, Voiced, Spoken
  <2>3. Batch(pass.joined) \in Seq(Voiced) /\ Voiced \in SUBSET EventBody
    BY <2>1, <2>2, BatchSays DEF Voiced
  <2>4. Grown(log, log', Voiced)
    BY <1>1, <1>2, <2>3, AppendedFacts DEF Finish, LogTypes
  <2>5. \A i \in DOMAIN queue : queue[i] \in Voiced
    BY <1>1 DEF Voiced, Spoken, LogTypes
  <2>. QED
    BY <1>1, <2>4, <2>5 DEF Records, LogTypes
<1>3. CASE ~Finish
  <2>1. log' = log
    BY <1>3 DEF Reconcile, StartPass, Join, TimeOut, Panic
  <2>. QED
    BY <1>1, <2>1, NothingRecorded
<1>. QED
  BY <1>2, <1>3

\* Whatever step is taken.
LEMMA StepRecords ==
    ASSUME Types, [Next]_vars
    PROVE  Records
<1>1. LogTypes
  BY DEF Types
<1>2. CASE \E s \in Sessions : HookStep(s)
  BY <1>2, HookRecords
<1>3. CASE Harness
  BY <1>3, HarnessRecords
<1>4. CASE Reconcile /\ UNCHANGED <<queue, call, gitVars>>
  BY <1>4, ReconcileRecords
<1>5. CASE Command /\ UNCHANGED <<queue, call, pass, gitVars>>
  BY <1>1, <1>5, CommandRecords
<1>6. CASE UNCHANGED vars
  BY <1>1, <1>6, NothingRecorded DEF vars
<1>. QED
  BY <1>2, <1>3, <1>4, <1>5, <1>6 DEF Next

-----------------------------------------------------------------------------
(* What a step does to git *)

\* git keeps its objects, and the log does not move when it does.
GitGrows ==
    /\ GitTypes'
    /\ Made \subseteq Made' /\ \A sha \in Made : object'[sha] = object[sha]
    /\ log' = log \/ object' = object

LEMMA GitStays ==
    ASSUME GitTypes, object' = object, branch' = branch
    PROVE  GitGrows
BY DEF GitTypes, GitGrows, Made

LEMMA HookGrowsGit ==
    ASSUME Types, NEW s \in Sessions, HookStep(s)
    PROVE  GitGrows
<1>1. GitTypes /\ call[s] \in Call
  BY DEF Types, CallTypes
<1>2. CASE RunCommit(s)
  <2>1. call[s] \in CommitChecked
    BY <1>1, <1>2, CallTells DEF RunCommit, Running
  <2>2. PICK sha \in Shas : \E msg \in Written(call[s].line[call[s].ran + 1]) : CommitAs(sha, msg)
    BY <1>2 DEF RunCommit
  <2>3. PICK msg \in Written(call[s].line[call[s].ran + 1]) : CommitAs(sha, msg)
    BY <2>2
  <2>4. msg \in Message
    BY <2>1, WrittenFacts
  <2>5. log' = log
    BY <1>2 DEF RunCommit
  <2>. QED
    BY <1>1, <2>3, <2>4, <2>5, CommitTypes DEF GitGrows
<1>3. CASE RunRevert(s)
  <2>1. PICK i \in DOMAIN branch, sha \in Shas :
            \E msg \in {RevertMessage(branch[i])} \cup Shared : CommitAs(sha, msg)
    BY <1>3 DEF RunRevert
  <2>2. PICK msg \in {RevertMessage(branch[i])} \cup Shared : CommitAs(sha, msg)
    BY <2>1
  <2>3. branch[i] \in Made /\ log' = log
    BY <1>1, <1>3 DEF GitTypes, RunRevert
  <2>4. msg \in Message
    BY <1>1, <2>3, RevertMessageTypes, HooksAssumption DEF Shared
  <2>. QED
    BY <1>1, <2>2, <2>3, <2>4, CommitTypes DEF GitGrows
<1>4. CASE RunRewrite(s)
  <2>1. PICK n \in 0..Len(branch) : Rewrite(n)
    BY <1>4 DEF RunRewrite
  <2>. QED
    BY <1>1, <2>1, RewriteTypes DEF GitGrows
<1>5. CASE ~RunCommit(s) /\ ~RunRevert(s) /\ ~RunRewrite(s)
  <2>1. object' = object /\ branch' = branch
    BY <1>5 DEF HookStep, CheckCommit, SkipPart, CommitFails, RecordCommit, LookUpRevert,
                RecordRevert, StartRewrite, Detect, RecordSwitch, Warn, gitVars
  <2>. QED
    BY <1>1, <2>1, GitStays
<1>. QED
  BY <1>2, <1>3, <1>4, <1>5

LEMMA HarnessGrowsGit ==
    ASSUME Types, Harness
    PROVE  GitGrows
<1>1. GitTypes
  BY DEF Types
<1>2. CASE UnheardCommit
  <2>1. PICK msg \in Messages, sha \in Shas : CommitAs(sha, msg) /\ log' = log
    BY <1>2 DEF UnheardCommit
  <2>. QED
    BY <1>1, <2>1, HooksAssumption, CommitTypes DEF GitGrows
<1>3. CASE LooseRewrite
  <2>1. PICK n \in 0..Len(branch) : Rewrite(n)
    BY <1>3 DEF LooseRewrite
  <2>. QED
    BY <1>1, <2>1, RewriteTypes DEF GitGrows
<1>4. CASE ~UnheardCommit /\ ~LooseRewrite
  <2>1. object' = object /\ branch' = branch
    BY <1>4 DEF Harness, HarnessSwitch, Subagent, ToolFailure, Drain, gitVars
  <2>. QED
    BY <1>1, <2>1, GitStays
<1>. QED
  BY <1>2, <1>3, <1>4

LEMMA StepGrowsGit ==
    ASSUME Types, [Next]_vars
    PROVE  GitGrows
<1>1. GitTypes
  BY DEF Types
<1>2. CASE \E s \in Sessions : HookStep(s)
  BY <1>2, HookGrowsGit
<1>3. CASE Harness
  BY <1>3, HarnessGrowsGit
<1>4. CASE UNCHANGED gitVars
  BY <1>1, <1>4, GitStays DEF gitVars
<1>. QED
  BY <1>2, <1>3, <1>4 DEF Next, vars, gitVars

-----------------------------------------------------------------------------
(* What a step does to the calls and to the pass *)

\* A part of a line is done: the call goes on, has run, or has come to nothing.
LEMMA PartFacts ==
    ASSUME CallTypes, NEW s \in Sessions, call[s] \in CommitChecked,
           NEW header \in Spelling \cup {None}, PartDone(s, header)
    PROVE  \E c \in {NoCall} \cup CommitChecked \cup CommitRan :
              /\ call' = [call EXCEPT ![s] = c]
              /\ c # NoCall =>
                    /\ c.line = call[s].line /\ c.looked = call[s].looked
                    /\ c.header = IF call[s].header = None THEN header ELSE call[s].header
<1> DEFINE d == call[s]
           pc == IF d.ran + 1 < Len(d.line) THEN "checked" ELSE "ran"
<1>1. /\ d \in [tool: {"commit"}, pc: {"checked"}, line: Lines, ran: Nat,
                 header: Spelling \cup {None}, looked: Nat]
      /\ d.ran \in Nat
  BY DEF CommitChecked
<1>2. PICK first : first = IF d.header = None THEN header ELSE d.header
  OBVIOUS
<1>3. PICK c : c = [d EXCEPT !.pc = pc, !.ran = d.ran + 1, !.header = first]
  OBVIOUS
<1>4. call' = [call EXCEPT ![s] = IF pc = "ran" /\ first = None THEN NoCall ELSE c]
  BY <1>2, <1>3 DEF PartDone
<1>5. first \in Spelling \cup {None}
  BY <1>1, <1>2
<1>6. c = [tool |-> "commit", pc |-> pc, line |-> d.line, ran |-> d.ran + 1, header |-> first,
           looked |-> d.looked]
  BY <1>1, <1>3
<1>0. /\ c.line = d.line /\ c.looked = d.looked
      /\ c.header = IF d.header = None THEN header ELSE d.header
  BY <1>2, <1>6
<1>7. CASE pc = "checked"
  <2>1. d.ran + 1 < Len(d.line)
    BY <1>7
  <2>2. c \in CommitChecked
    BY <1>1, <1>5, <1>6, <1>7, <2>1 DEF CommitChecked
  <2>3. call' = [call EXCEPT ![s] = c]
    BY <1>4, <1>7
  <2>. QED
    BY <1>0, <2>2, <2>3
<1>8. CASE pc = "ran" /\ first # None
  <2>1. c \in CommitRan
    BY <1>1, <1>5, <1>6, <1>8 DEF CommitRan
  <2>2. call' = [call EXCEPT ![s] = c]
    BY <1>4, <1>8
  <2>. QED
    BY <1>0, <2>1, <2>2
<1>9. CASE pc = "ran" /\ first = None
  BY <1>4, <1>9
<1>. QED
  BY <1>7, <1>8, <1>9

\* The last step of a hook leaves no call, or one whose event is lost.
HookEnds(s) ==
    \/ CommitFails(s) \/ RecordCommit(s) \/ RecordRevert(s) \/ RunRewrite(s)
    \/ RecordSwitch(s) \/ Warn(s)

LEMMA HookEnd ==
    ASSUME NEW s \in Sessions, HookEnds(s)
    PROVE  Done(s) \/ Loses(s)
BY DEF HookEnds, CommitFails, RecordCommit, RecordRevert, RunRewrite, RecordSwitch, Warn,
       PostToolAppend

\* A session moves its own call only.
LEMMA HookMovesItsCall ==
    ASSUME Types, NEW s \in Sessions, HookStep(s)
    PROVE  CallTypes' /\ \A t \in Sessions : t # s => call'[t] = call[t]
<1>1. /\ call \in [Sessions -> Call] /\ call[s] \in Call /\ log \in Seq(Event) /\ GitTypes
      /\ NoCall \in Call
  BY DEF Types, CallTypes, LogTypes, Call
<1>2. Len(log) \in Nat
  BY <1>1
<1>3. ASSUME NEW c \in Call, call' = [call EXCEPT ![s] = c]
      PROVE  CallTypes' /\ \A t \in Sessions : t # s => call'[t] = call[t]
  BY <1>1, <1>3 DEF CallTypes
<1>4. CASE CheckCommit(s)
  <2>1. PICK line \in Lines :
            call' = [call EXCEPT ![s] =
                        [tool |-> "commit", pc |-> "checked", line |-> line, ran |-> 0,
                         header |-> None, looked |-> Len(log)]]
    BY <1>4 DEF CheckCommit
  <2> DEFINE c == [tool |-> "commit", pc |-> "checked", line |-> line, ran |-> 0,
                   header |-> None, looked |-> Len(log)]
  <2>0. 0 < Len(line)
    BY LineFacts
  <2>2. c \in CommitChecked
    BY <1>2, <2>0 DEF CommitChecked
  <2>. QED
    BY <1>3, <2>1, <2>2 DEF Call
<1>5. CASE RunCommit(s) \/ SkipPart(s)
  <2>1. call[s] \in CommitChecked
    BY <1>1, <1>5, CallTells DEF RunCommit, SkipPart, Running
  <2>2. \A sha \in Shas, quiet \in BOOLEAN : CommitHeader(sha, quiet) \in Spelling \cup {None}
    BY SpellingFacts DEF CommitHeader
  <2>3. PICK header \in Spelling \cup {None} : PartDone(s, header)
    BY <1>5, <2>2 DEF RunCommit, SkipPart
  <2>4. CallTypes
    BY <1>1 DEF CallTypes
  <2>5. PICK x \in Call : call' = [call EXCEPT ![s] = x]
    BY <2>1, <2>3, <2>4, PartFacts DEF Call
  <2>. QED
    BY <1>3, <2>5
<1>6. CASE RunRevert(s)
  <2>1. PICK j \in DOMAIN branch, sha \in Shas, quiet \in BOOLEAN :
        \E token \in {Full(branch[j]), Short(branch[j]), RefName}, detached \in BOOLEAN :
            IF RevertHeader(sha, quiet, detached) = None THEN UNCHANGED call
            ELSE call' = [call EXCEPT ![s] =
                     [tool |-> "revert", pc |-> "ran", original |-> token,
                      header |-> RevertHeader(sha, quiet, detached)]]
    BY <1>6 DEF RunRevert
  <2>2. PICK token \in {Full(branch[j]), Short(branch[j]), RefName}, detached \in BOOLEAN :
            IF RevertHeader(sha, quiet, detached) = None THEN UNCHANGED call
            ELSE call' = [call EXCEPT ![s] =
                     [tool |-> "revert", pc |-> "ran", original |-> token,
                      header |-> RevertHeader(sha, quiet, detached)]]
    BY <2>1
  <2> DEFINE h == RevertHeader(sha, quiet, detached)
             c == [tool |-> "revert", pc |-> "ran", original |-> token, header |-> h]
  <2>3. branch[j] \in Shas
    BY <1>1 DEF GitTypes
  <2>4. token \in Spelling
    BY <2>3, SpellingFacts DEF Spelling
  <2>5. h # None => h \in Spelling
    BY SpellingFacts DEF RevertHeader, Spelling
  <2>6. h # None => c \in RevertRan
    BY <2>4, <2>5 DEF RevertRan
  <2>7. h # None => c \in Call
    BY <2>6 DEF Call
  <2>8. call' = call \/ (h # None /\ call' = [call EXCEPT ![s] = c])
    BY <2>2
  <2>. QED
    BY <1>1, <1>3, <2>7, <2>8 DEF CallTypes
<1>7. CASE LookUpRevert(s)
  <2>1. call[s] \in RevertRan
    BY <1>1, <1>7, CallTells DEF LookUpRevert, Running
  <2> DEFINE S == ShipsSpelled(call[s].original)
             c == [tool |-> "revert", pc |-> "found", original |-> call[s].original,
                   header |-> call[s].header, milestone |-> log[Latest(S)].body.milestone]
  <2>2. call' = [call EXCEPT ![s] = IF S = {} THEN NoCall ELSE c]
    BY <1>7 DEF LookUpRevert
  <2>3. S # {} => c \in RevertFound
    <3> SUFFICES ASSUME S # {} PROVE c \in RevertFound
      OBVIOUS
    <3>1. S \in SUBSET (1..Len(log))
      BY <1>1 DEF ShipsSpelled, OfKind
    <3>2. Latest(S) \in S
      <4> HIDE DEF S
      <4>. QED
        BY <1>2, <3>1, LatestExists
    <3>3. log[Latest(S)].body.kind = "MilestoneShipped" /\ Latest(S) \in DOMAIN log
      BY <3>2 DEF ShipsSpelled, OfKind
    <3>4. log[Latest(S)].body \in MilestoneShipped
      BY <1>1, <3>3, BodyOf, KindTells
    <3> HIDE DEF S
    <3>. QED
      BY <2>1, <3>4 DEF RevertRan, RevertFound, MilestoneShipped
  <2>4. (IF S = {} THEN NoCall ELSE c) \in Call
    BY <1>1, <2>3 DEF Call
  <2>. QED
    BY <1>3, <2>2, <2>4
<1>8. CASE StartRewrite(s)
  <2> DEFINE c == [tool |-> "rewrite", pc |-> "checked", looked |-> Len(log)]
  <2>1. c \in RewriteChecked
    BY <1>2 DEF RewriteChecked
  <2>. QED
    BY <1>3, <1>8, <2>1 DEF Call, StartRewrite
<1>9. CASE Detect(s)
  <2>1. PICK current \in Models :
            /\ PriorModel \notin {None, current}
            /\ call' = [call EXCEPT ![s] =
                   [tool |-> "detect", pc |-> "loaded", prior |-> PriorModel,
                    current |-> current, looked |-> Len(log)]]
    BY <1>9 DEF Detect
  <2> DEFINE c == [tool |-> "detect", pc |-> "loaded", prior |-> PriorModel,
                   current |-> current, looked |-> Len(log)]
  <2>2. c \in DetectLoaded
    BY <1>1, <1>2, <2>1, PriorModelIsModel DEF DetectLoaded
  <2>. QED
    BY <1>3, <2>1, <2>2 DEF Call
<1>10. CASE HookEnds(s)
  <2>1. [tool |-> "lost"] \in Call
    BY DEF Call, Lost
  <2>2. PICK c \in Call : call' = [call EXCEPT ![s] = c]
    BY <1>1, <1>10, <2>1, HookEnd DEF Done, Loses
  <2>. QED
    BY <1>3, <2>2
<1>. QED
  BY <1>4, <1>5, <1>6, <1>7, <1>8, <1>9, <1>10 DEF HookStep, HookEnds

\* Pairs joined to pairs are pairs.
LEMMA JoinTypes ==
    ASSUME NEW pairs \in Pairs, NEW name \in Observers, NEW B, B \subseteq EventBody,
           NEW result \in Seq(B)
    PROVE  LET more == pairs \o [i \in DOMAIN result |-> <<name, result[i]>>]
           IN  /\ more \in Pairs
               /\ \A i \in DOMAIN more : \/ i \in DOMAIN pairs /\ more[i] = pairs[i]
                                         \/ more[i][2] \in B
<1> DEFINE f == [i \in DOMAIN result |-> <<name, result[i]>>]
           more == pairs \o f
<1>1. Len(result) \in Nat /\ DOMAIN result = 1..Len(result)
  OBVIOUS
<1>2. \A i \in 1..Len(result) : <<name, result[i]>> \in Observers \X B
  OBVIOUS
<1>3. f \in [1..Len(result) -> Observers \X B]
  BY <1>1, <1>2
<1> HIDE DEF f
<1>4. f \in Seq(Observers \X B)
  BY <1>1, <1>3
<1>5. \A x \in Observers \X B : x[2] \in B /\ x \in Observers \X EventBody
  OBVIOUS
<1>6. f \in Seq(Observers \X EventBody)
  BY <1>1, <1>3, <1>5
<1>7. pairs \in Seq(Observers \X EventBody)
  BY DEF Pairs
<1>8. more \in Seq(Observers \X EventBody) /\ Len(more) = Len(pairs) + Len(f)
  BY <1>6, <1>7
<1>9. ASSUME NEW i \in DOMAIN more
      PROVE  (i \in DOMAIN pairs /\ more[i] = pairs[i]) \/ more[i][2] \in B
  <2>1. i \in 1..(Len(pairs) + Len(f)) /\ Len(pairs) \in Nat /\ Len(f) \in Nat
    BY <1>6, <1>7, <1>8
  <2>2. CASE i <= Len(pairs)
    BY <1>6, <1>7, <2>1, <2>2
  <2>3. CASE i > Len(pairs)
    <3>1. i - Len(pairs) \in 1..Len(f) /\ more[i] = f[i - Len(pairs)]
      BY <1>6, <1>7, <2>1, <2>3
    <3>2. f[i - Len(pairs)] \in Observers \X B
      BY <1>4, <3>1
    <3>. QED
      BY <1>5, <3>1, <3>2
  <2>. QED
    BY <2>1, <2>2, <2>3
<1>. QED
  BY <1>8, <1>9 DEF Pairs, f

\* A pass joins what its observers say.
PassMoves ==
    /\ PassTypes'
    /\ \A i \in DOMAIN pass'.joined :
          \/ i \in DOMAIN pass.joined /\ pass'.joined[i] = pass.joined[i]
          \/ pass'.joined[i][2] \in Claimed
          \/ \E said \in ScanProposals : \E j \in DOMAIN said : pass'.joined[i][2] = said[j]
          \/ ~ \A j \in DOMAIN log : Claim(log[j].body)

LEMMA PassStays ==
    ASSUME Types, pass' = pass \/ pass' = IdlePass, Grown(log, log', Voiced)
    PROVE  PassMoves
<1>1. Len(log) \in Nat /\ Len(log') \in Nat /\ Len(log) <= Len(log')
  BY DEF Types, LogTypes, Grown
<1>2. IdlePass \in [running: SUBSET Observers, snapshot: Nat, joined: Pairs, open: BOOLEAN]
      /\ IdlePass.snapshot = 0 /\ IdlePass.joined = <<>>
  BY DEF IdlePass, Pairs
<1>3. pass.snapshot \in Nat /\ pass.snapshot <= Len(log)
  BY DEF Types, PassTypes
<1>. QED
  BY <1>1, <1>2, <1>3 DEF PassMoves, Types, PassTypes

LEMMA ReconcileMovesPass ==
    ASSUME Types, Reconcile, Grown(log, log', Voiced)
    PROVE  PassMoves
<1> DEFINE Pass == [running: SUBSET Observers, snapshot: Nat, joined: Pairs, open: BOOLEAN]
<1>1. pass \in Pass /\ pass.snapshot <= Len(log) /\ Len(log) \in Nat
  BY DEF Types, PassTypes, LogTypes
<1>2. CASE StartPass
  <2>1. PICK names \in Configured :
            pass' = [IdlePass EXCEPT !.open = TRUE, !.running = names, !.snapshot = Len(log)]
    BY <1>2 DEF StartPass
  <2>2. names \in SUBSET Observers
    BY ReconcilerAssumption
  <2>3. pass' = [running |-> names, snapshot |-> Len(log), joined |-> <<>>, open |-> TRUE]
    BY <2>1 DEF IdlePass
  <2>4. <<>> \in Pairs
    BY DEF Pairs
  <2>5. log' = log
    BY <1>2 DEF StartPass
  <2>. QED
    BY <1>1, <2>2, <2>3, <2>4, <2>5 DEF PassMoves, PassTypes
<1>3. ASSUME NEW name \in Observers, Join(name)
      PROVE  PassMoves
  <2>1. PICK result \in Results(name) :
            pass' = [pass EXCEPT
                !.running = @ \ {name},
                !.joined = IF result = Failed THEN @
                           ELSE @ \o [i \in DOMAIN result |-> <<name, result[i]>>]]
    BY <1>3 DEF Join
  <2>2. log' = log
    BY <1>3 DEF Join
  <2>3. CASE result = Failed
    <3>1. pass' = [pass EXCEPT !.running = @ \ {name}]
      BY <1>1, <2>1, <2>3
    <3>2. pass' \in Pass /\ pass'.snapshot = pass.snapshot /\ pass'.joined = pass.joined
      BY <1>1, <3>1
    <3>. QED
      BY <1>1, <2>2, <3>2 DEF PassMoves, PassTypes
  <2>4. CASE result # Failed
    <3> DEFINE more == pass.joined \o [i \in DOMAIN result |-> <<name, result[i]>>]
    <3>1. pass' = [pass EXCEPT !.running = @ \ {name}, !.joined = more]
      BY <2>1, <2>4
    <3>2. pass.joined \in Pairs
      BY <1>1
    <3>3. ASSUME NEW B, B \subseteq EventBody, result \in Seq(B)
          PROVE  /\ PassTypes'
                 /\ \A i \in DOMAIN pass'.joined :
                       \/ i \in DOMAIN pass.joined /\ pass'.joined[i] = pass.joined[i]
                       \/ pass'.joined[i][2] \in B
      <4>1. /\ more \in Pairs
            /\ \A i \in DOMAIN more : \/ i \in DOMAIN pass.joined /\ more[i] = pass.joined[i]
                                      \/ more[i][2] \in B
        BY <3>2, <3>3, JoinTypes
      <4> HIDE DEF more
      <4>2. /\ pass' \in Pass /\ pass'.snapshot = pass.snapshot /\ pass'.joined = more
        BY <1>1, <3>1, <4>1
      <4>. QED
        BY <1>1, <2>2, <4>1, <4>2 DEF PassTypes
    <3>4. /\ result \in Seq(EventBody)
          /\ \/ result \in Seq(Claimed)
             \/ result \in ScanProposals
             \/ ~ \A i \in DOMAIN log : Claim(log[i].body)
      BY <2>4, ObserversSay
    <3>5. CASE result \in Seq(Claimed)
      <4>1. Claimed \subseteq EventBody
        BY DEF Claimed
      <4>. QED
        BY <3>3, <3>5, <4>1 DEF PassMoves
    <3>6. CASE result \in ScanProposals
      <4> DEFINE B == {b \in EventBody : \E j \in DOMAIN result : b = result[j]}
      <4>1. result \in Seq(B) /\ B \subseteq EventBody
        BY <3>4
      <4>2. \A b \in B : \E said \in ScanProposals : \E j \in DOMAIN said : b = said[j]
        BY <3>6
      <4> HIDE DEF B
      <4>. QED
        BY <3>3, <4>1, <4>2 DEF PassMoves
    <3>7. CASE ~ \A i \in DOMAIN log : Claim(log[i].body)
      BY <3>3, <3>4, <3>7 DEF PassMoves
    <3>. QED
      BY <3>4, <3>5, <3>6, <3>7
  <2>. QED
    BY <2>3, <2>4
<1>4. ASSUME NEW name \in Observers, TimeOut(name)
      PROVE  PassMoves
  <2>1. pass' = [pass EXCEPT !.running = @ \ {name}] /\ log' = log
    BY <1>4 DEF TimeOut
  <2>2. pass' \in Pass /\ pass'.snapshot = pass.snapshot /\ pass'.joined = pass.joined
    BY <1>1, <2>1
  <2>. QED
    BY <1>1, <2>1, <2>2 DEF PassMoves, PassTypes
<1>5. ASSUME NEW name \in Observers, Panic(name)
      PROVE  PassMoves
  BY <1>5, PassStays DEF Panic
<1>6. CASE Finish
  BY <1>6, PassStays DEF Finish
<1>. QED
  BY <1>2, <1>3, <1>4, <1>5, <1>6 DEF Reconcile

LEMMA StepMovesCalls ==
    ASSUME Types, [Next]_vars
    PROVE  CallTypes'
<1>1. CASE \E s \in Sessions : HookStep(s)
  BY <1>1, HookMovesItsCall
<1>2. CASE UNCHANGED call
  BY <1>2 DEF Types, CallTypes
<1>. QED
  BY <1>1, <1>2 DEF Next, Harness, UnheardCommit, LooseRewrite, HarnessSwitch, Subagent,
     ToolFailure, Drain, vars

LEMMA StepMovesPass ==
    ASSUME Types, [Next]_vars
    PROVE  PassMoves
<1>1. Grown(log, log', Voiced)
  BY StepRecords DEF Records
<1>2. CASE Reconcile
  BY <1>1, <1>2, ReconcileMovesPass
<1>3. CASE pass' = pass
  BY <1>1, <1>3, PassStays
<1>. QED
  BY <1>2, <1>3 DEF Next, vars

\* Every value is of its type.
LEMMA TypesInit ==
    ASSUME Init
    PROVE  Types
<1>1. LogTypes
  BY DEF Init, InitHooks, LogTypes
<1>2. GitTypes
  <2>1. object = [sha \in {} |-> None] /\ branch = <<>>
    BY DEF Init, InitGit
  <2>2. Made = {}
    BY <2>1 DEF Made
  <2>3. object \in [{} -> Message]
    BY <2>1
  <2>. QED
    BY <2>1, <2>2, <2>3 DEF GitTypes
<1>3. CallTypes
  BY DEF Init, InitHooks, CallTypes, Call
<1>4. PassTypes
  BY DEF Init, InitReconciler, IdlePass, PassTypes, Pairs
<1>. QED
  BY <1>1, <1>2, <1>3, <1>4 DEF Types

LEMMA TypesNext ==
    ASSUME Types, [Next]_vars
    PROVE  Types'
<1>1. LogTypes'
  BY StepRecords DEF Records, Grown, LogTypes
<1>2. GitTypes'
  BY StepGrowsGit DEF GitGrows
<1>3. CallTypes'
  BY StepMovesCalls
<1>4. PassTypes'
  BY StepMovesPass DEF PassMoves
<1>. QED
  BY <1>1, <1>2, <1>3, <1>4 DEF Types

\* The log is a sequence of events, git holds commits that can be made, every
\* call and every pass is of the shape its step left it in.
THEOREM WorkbenchTypes == Spec => []Types
BY TypesInit, TypesNext, PTL DEF Spec

-----------------------------------------------------------------------------
(* The reconciler *)

\* A pass leaves the log that what its observers said decides, in whatever
\* order they were done (reconciler lib.rs, "Deterministic order").
THEOREM WorkbenchMergeIsDeterministic == Spec => MergeIsDeterministic
<1> DEFINE Closes == pass.open /\ ~pass'.open
           Leaves == log' = IF pass.running = {} THEN Appended(log, Owed(Said(pass.joined)))
                            ELSE log
<1>1. ASSUME Types, [Next]_vars
      PROVE  [Closes => Leaves]_vars
  <2>1. CASE UNCHANGED vars
    BY <2>1
  <2>2. CASE pass' = pass
    BY <2>2
  <2>3. CASE Reconcile
    <3>1. CASE StartPass
      BY <3>1 DEF StartPass
    <3>2. ASSUME NEW name \in Observers, Join(name) \/ TimeOut(name)
          PROVE  pass'.open = pass.open
      BY <1>1, <3>2 DEF Types, PassTypes, Join, TimeOut
    <3>3. ASSUME NEW name \in Observers, Panic(name)
          PROVE  Leaves
      BY <3>3 DEF Panic
    <3>4. CASE Finish
      <4>1. pass.joined \in Pairs
        BY <1>1 DEF Types, PassTypes
      <4>2. log' = Appended(log, Owed(Said(pass.joined))) /\ pass.running = {}
        BY <3>4, <4>1, BatchIsOwed DEF Finish
      <4>. QED
        BY <4>2
    <3>. QED
      BY <2>3, <3>1, <3>2, <3>3, <3>4 DEF Reconcile
  <2>. QED
    BY <1>1, <2>1, <2>2, <2>3 DEF Next
<1>. QED
  BY <1>1, WorkbenchTypes, PTL DEF Spec, MergeIsDeterministic

-----------------------------------------------------------------------------
(* What the log says of git *)

\* The header of a call is that of a commit that git made.  If the commit was
\* written by a line of its own, it is this line; and if it is the revert of a
\* call, it is git's revert of what the call names, unless a detached HEAD has
\* left the call with a name.  A ship that is found was not spelled HEAD.
Backed(c) ==
    /\ c \in CommitChecked \cup CommitRan /\ c.header # None =>
          \E sha \in Made : /\ c.header = Short(sha)
                            /\ object[sha].typed = "own" => c.line[1] = object[sha]
    /\ c \in RevertRan \cup RevertFound =>
          \/ c.header = RefName
          \/ \E sha \in Made :
                /\ c.header = Short(sha)
                /\ object[sha].typed = "own" =>
                      /\ object[sha].quoted
                      /\ c.original # RefName => Names(c.original, object[sha].cites)
    /\ c \in RevertFound => c.original # RefName

LogIsTrue == \A i \in DOMAIN log : Claim(log[i].body)
QueueIsTrue == \A i \in DOMAIN queue : Claim(queue[i])
PassIsTrue == \A i \in DOMAIN pass.joined : Claim(pass.joined[i][2])
CallsAreBacked == \A s \in Sessions : Backed(call[s])

\* What is true of git stays true.
LEMMA TruthGrows ==
    ASSUME GitGrows, NEW b, Claim(b)
    PROVE  Claim(b)'
<1>1. Made \subseteq Made' /\ \A sha \in Made : object'[sha] = object[sha]
  BY DEF GitGrows
<1>2. \A sha \in Made : \A milestone, kind :
          Ships(sha, milestone, kind) => Ships(sha, milestone, kind)'
  BY <1>1 DEF Ships
<1>3. ASSUME b.kind = "MilestoneShipped", b.status = "Verified"
      PROVE  \E sha \in Made' :
                /\ Names(b.commit, sha)
                /\ b.commit.form = "full" \/ object'[sha].typed = "own" =>
                       Ships(sha, b.milestone, b.commit_kind)'
  <2>1. PICK sha \in Made :
            /\ Names(b.commit, sha)
            /\ b.commit.form = "full" \/ object[sha].typed = "own" =>
                   Ships(sha, b.milestone, b.commit_kind)
    BY <1>3 DEF Claim, TrueOfGit
  <2>. QED
    BY <1>1, <1>2, <2>1
<1>4. b.kind = "MilestoneVerified" => \E sha \in Made' : Names(b.commit, sha)
  BY <1>1 DEF Claim, TrueOfGit
<1>5. ASSUME b.kind = "MilestoneReverted", b.revert # RefName
      PROVE  \E sha \in Made' :
                /\ Names(b.revert, sha)
                /\ b.revert.form = "full" \/ object'[sha].typed = "own" =>
                       /\ ParsedKind(object'[sha]) = "revert"
                       /\ Names(b.original, object'[sha].cites)
  <2>1. PICK sha \in Made :
            /\ Names(b.revert, sha)
            /\ b.revert.form = "full" \/ object[sha].typed = "own" =>
                   /\ ParsedKind(object[sha]) = "revert"
                   /\ Names(b.original, object[sha].cites)
    BY <1>5 DEF Claim, TrueOfGit
  <2>. QED
    BY <1>1, <2>1
<1>6. b.kind = "MilestoneShipped" => b.commit # RefName
  BY DEF Claim
<1>. QED
  BY <1>3, <1>4, <1>5, <1>6 DEF Claim, TrueOfGit

LEMMA BackedGrows ==
    ASSUME GitGrows, NEW c, Backed(c)
    PROVE  Backed(c)'
<1>1. Made \subseteq Made' /\ \A sha \in Made : object'[sha] = object[sha]
  BY DEF GitGrows
<1>2. c \in CommitChecked \cup CommitRan /\ c.header # None =>
          \E sha \in Made' : /\ c.header = Short(sha)
                             /\ object'[sha].typed = "own" => c.line[1] = object'[sha]
  BY <1>1 DEF Backed
<1>3. c \in RevertRan \cup RevertFound =>
          \/ c.header = RefName
          \/ \E sha \in Made' :
                /\ c.header = Short(sha)
                /\ object'[sha].typed = "own" =>
                      /\ object'[sha].quoted
                      /\ c.original # RefName => Names(c.original, object'[sha].cites)
  <2> SUFFICES ASSUME c \in RevertRan \cup RevertFound, c.header # RefName
               PROVE  \E sha \in Made' :
                         /\ c.header = Short(sha)
                         /\ object'[sha].typed = "own" =>
                               /\ object'[sha].quoted
                               /\ c.original # RefName => Names(c.original, object'[sha].cites)
    OBVIOUS
  <2>1. PICK sha \in Made :
            /\ c.header = Short(sha)
            /\ object[sha].typed = "own" =>
                  /\ object[sha].quoted
                  /\ c.original # RefName => Names(c.original, object[sha].cites)
    BY DEF Backed
  <2>. QED
    BY <1>1, <2>1
<1>4. c \in RevertFound => c.original # RefName
  BY DEF Backed
<1>. QED
  BY <1>2, <1>3, <1>4 DEF Backed

\* What may be recorded next is true.
LEMMA VoicedIsTrue ==
    ASSUME Types, QueueIsTrue, PassIsTrue, CallsAreBacked, NEW b \in Voiced
    PROVE  Claim(b)
<1>1. b \in EventBody /\ Spoken(b)
  BY DEF Voiced
<1>2. CASE b.kind \notin Delivered
  BY <1>1, <1>2, OthersClaimNothing DEF Claimed
<1>3. CASE \E i \in DOMAIN queue : b = queue[i]
  BY <1>3 DEF QueueIsTrue
<1>4. CASE \E i \in DOMAIN pass.joined : b = pass.joined[i][2]
  BY <1>4 DEF PassIsTrue
<1>5. ASSUME NEW s \in Sessions, call[s] \in CommitRan,
             NEW heard \in ExtractMessage(call[s].line, Texts),
             b \in Proposals(heard, call[s].header)
      PROVE  Claim(b)
  <2> DEFINE c == call[s]
  <2>1. c.line \in Lines /\ c.header \in Spelling /\ c.header # None
    BY <1>5, SpellingAssumption DEF CommitRan
  <2>2. PICK sha \in Made : /\ c.header = Short(sha)
                            /\ object[sha].typed = "own" => c.line[1] = object[sha]
    BY <1>5, <2>1 DEF CallsAreBacked, Backed
  <2>3. heard \in Message /\ b \in VerifyProposal(heard, c.header)
    BY <1>5, <2>1, HeardFacts DEF Proposals
  <2>4. /\ b = [kind |-> "MilestoneShipped", milestone |-> heard.trailer,
                commit |-> c.header, commit_kind |-> ParseConventional(heard),
                status |-> "Verified"]
        /\ Accepted(heard)
    BY <2>1, <2>3, ProposalsAreShips
  <2>5. /\ b.kind = "MilestoneShipped" /\ b.milestone = heard.trailer
        /\ b.commit = Short(sha) /\ b.commit_kind = ParseConventional(heard)
    BY <2>2, <2>4
  <2>6. ASSUME object[sha].typed = "own"
        PROVE  Ships(sha, b.milestone, b.commit_kind)
    <3>1. c.line[1] = object[sha] /\ c.line[1].typed = "own"
      BY <2>2, <2>6
    <3>2. heard = Joined(c.line)
      BY <1>5, <2>1, <3>1, HeardFacts
    <3>3. /\ heard.trailer = object[sha].trailer
          /\ ParseConventional(heard) = ParseConventional(object[sha])
      BY <2>1, <2>4, <3>1, <3>2, LineFacts
    <3>. QED
      BY <2>5, <3>3 DEF Ships
  <2>7. b.commit.form # "full"
    BY <2>5 DEF Short
  <2>8. sha \in Shas
    BY DEF Types, GitTypes
  <2>. QED
    BY <2>5, <2>6, <2>7, <2>8, SpellingFacts DEF Claim, TrueOfGit
<1>6. ASSUME NEW s \in Sessions, call[s] \in RevertFound,
             b = RevertProposal(call[s].header, call[s].original, call[s].milestone)
      PROVE  Claim(b)
  <2> DEFINE c == call[s]
  <2>1. c.original # RefName
    BY <1>6 DEF CallsAreBacked, Backed
  <2>2. /\ b.kind = "MilestoneReverted" /\ b.original = c.original /\ b.revert = c.header
    BY <1>6 DEF RevertProposal
  <2>3. CASE c.header = RefName
    BY <2>2, <2>3 DEF Claim, TrueOfGit
  <2>4. CASE c.header # RefName
    <3>1. PICK sha \in Made :
              /\ c.header = Short(sha)
              /\ object[sha].typed = "own" =>
                    /\ object[sha].quoted
                    /\ c.original # RefName => Names(c.original, object[sha].cites)
      BY <1>6, <2>4 DEF CallsAreBacked, Backed
    <3>2. object[sha].typed = "own" =>
              ParsedKind(object[sha]) = "revert" /\ Names(b.original, object[sha].cites)
      BY <2>1, <2>2, <3>1 DEF ParsedKind
    <3>3. sha \in Shas
      BY DEF Types, GitTypes
    <3>4. b.revert = Short(sha) /\ b.revert.form # "full"
      BY <2>2, <3>1 DEF Short
    <3>. QED
      BY <2>2, <3>2, <3>3, <3>4, SpellingFacts DEF Claim, TrueOfGit
  <2>. QED
    BY <2>3, <2>4
<1>. QED
  BY <1>1, <1>2, <1>3, <1>4, <1>5, <1>6 DEF Spoken

\* A modest subprocess claims nothing of git.
LEMMA ModestyIsTrue ==
    ASSUME Modest, NEW said \in ScanProposals, NEW i \in DOMAIN said
    PROVE  Claim(said[i])
BY DEF Modest, Claim, TrueOfGit

-----------------------------------------------------------------------------
(* What a hook saw *)

\* A line that a hook hears as it will hear it later, and that names a milestone.
Announces(line) == line[1].typed # "indirect" /\ Accepted(Joined(line))

\* No verified ship of the log is spelled so.
Unnamed(spelling) ==
    \A i \in OfKind(log, "MilestoneShipped") :
        log[i].body.status = "Verified" => log[i].body.commit # spelling

\* What a hook decided holds as long as the log is the one it looked at.
Fresh(c) ==
    /\ c \in CommitChecked \cup CommitRan \cup RewriteChecked \cup DetectLoaded =>
          c.looked <= Len(log)
    /\ c \in CommitChecked \cup CommitRan /\ c.looked = Len(log) =>
          /\ Announces(c.line) => Joined(c.line).trailer \notin ShippedMilestones(log)
          /\ c.header # None => Unnamed(c.header)
    /\ c \in RewriteChecked /\ c.looked = Len(log) => ShippedMilestones(log) = {}
    /\ c \in DetectLoaded => c.prior # c.current

CallsAreFresh == \A s \in Sessions : Fresh(call[s])

\* A log that has grown is not the one a hook has looked at.
LEMMA FreshGrows ==
    ASSUME Types, Grown(log, log', Voiced), NEW c, Fresh(c)
    PROVE  Fresh(c)'
<1>1. /\ Len(log) \in Nat /\ Len(log') \in Nat
      /\ log' = log \/ Len(log) < Len(log')
  BY DEF Types, LogTypes, Grown
<1>2. c \in CommitChecked \cup CommitRan \cup RewriteChecked \cup DetectLoaded =>
          c.looked \in Nat /\ c.looked <= Len(log)
  BY DEF Fresh, CommitChecked, CommitRan, RewriteChecked, DetectLoaded
<1>3. CASE log' = log
  BY <1>3 DEF Fresh, Unnamed, OfKind
<1>4. CASE Len(log) < Len(log')
  <2>1. c \in CommitChecked \cup CommitRan \cup RewriteChecked \cup DetectLoaded =>
            c.looked <= Len(log') /\ c.looked # Len(log')
    BY <1>1, <1>2, <1>4
  <2>2. c \in DetectLoaded => c.prior # c.current
    BY DEF Fresh
  <2>. QED
    BY <2>1, <2>2 DEF Fresh
<1>. QED
  BY <1>1, <1>3, <1>4

\* The tool and the place of a call tell it from the others.
LEMMA CallFields ==
    ASSUME NEW c
    PROVE  /\ c = NoCall => c.tool = "none"
           /\ c \in CommitChecked => c.tool = "commit" /\ c.pc = "checked"
           /\ c \in CommitRan => c.tool = "commit" /\ c.pc = "ran"
           /\ c \in RevertRan => c.tool = "revert" /\ c.pc = "ran"
           /\ c \in RevertFound => c.tool = "revert" /\ c.pc = "found"
           /\ c \in RewriteChecked => c.tool = "rewrite" /\ c.pc = "checked"
           /\ c \in DetectLoaded => c.tool = "detect" /\ c.pc = "loaded"
           /\ c = [tool |-> "lost"] => c.tool = "lost"
BY DEF NoCall, CommitChecked, CommitRan, RevertRan, RevertFound, RewriteChecked, DetectLoaded

\* A session without a call has nothing to back and saw nothing, and so has one
\* whose event is lost.
LEMMA NoCallIsSound ==
    ASSUME NEW c, c = NoCall \/ c = [tool |-> "lost"]
    PROVE  Backed(c)' /\ Fresh(c)'
<1>1. c \notin CommitChecked \cup CommitRan \cup RevertRan \cup RevertFound
                \cup RewriteChecked \cup DetectLoaded
  BY CallFields
<1>. QED
  BY <1>1 DEF Backed, Fresh

\* The session that moves backs its call, and saw what it decided on.
LEMMA HookIsSound ==
    ASSUME Types, LogIsTrue, NEW s \in Sessions, Backed(call[s]), Fresh(call[s]),
           HookStep(s)
    PROVE  Backed(call[s])' /\ Fresh(call[s])'
<1>1. /\ call \in [Sessions -> Call] /\ call[s] \in Call /\ log \in Seq(Event) /\ GitTypes
      /\ Len(log) \in Nat
  BY DEF Types, CallTypes, LogTypes
<1>2. call' \in [Sessions -> Call] /\ call'[s] \in Call
  BY HookMovesItsCall DEF CallTypes
<1>3. CASE CheckCommit(s)
  <2>1. PICK line \in Lines : \E heard \in ExtractMessage(line, Texts) :
            /\ Exit("check-commit", Check(heard)) = 0
            /\ call' = [call EXCEPT ![s] =
                   [tool |-> "commit", pc |-> "checked", line |-> line, ran |-> 0,
                    header |-> None, looked |-> Len(log)]]
    BY <1>3 DEF CheckCommit
  <2>0. PICK heard \in ExtractMessage(line, Texts) :
            /\ Exit("check-commit", Check(heard)) = 0
            /\ call' = [call EXCEPT ![s] =
                   [tool |-> "commit", pc |-> "checked", line |-> line, ran |-> 0,
                    header |-> None, looked |-> Len(log)]]
    BY <2>1
  <2>2. PICK c : c = [tool |-> "commit", pc |-> "checked", line |-> line, ran |-> 0,
                      header |-> None, looked |-> Len(log)]
    OBVIOUS
  <2>3. call'[s] = c /\ log' = log
    BY <1>1, <1>3, <2>0, <2>2 DEF CheckCommit
  <2>4. c.line = line /\ c.looked = Len(log) /\ c.header = None
        /\ c.tool = "commit" /\ c.pc = "checked"
    BY <2>2
  <2>5. Announces(line) => Joined(line).trailer \notin ShippedMilestones(log)
    <3> SUFFICES ASSUME line[1].typed # "indirect", Accepted(Joined(line))
                 PROVE  Joined(line).trailer \notin ShippedMilestones(log)
      BY DEF Announces
    <3>1. heard = Joined(line) /\ heard # None
      BY HeardFacts, LineFacts
    <3>2. Check(heard) # "Block"
      BY <2>0 DEF Exit
    <3>3. HasTrailer(heard)
      BY <3>1, ShasAssumption DEF Accepted, HasTrailer
    <3>. QED
      BY <3>1, <3>2, <3>3 DEF Check
  <2>6. c \notin CommitRan \cup RevertRan \cup RevertFound \cup RewriteChecked \cup DetectLoaded
    BY <2>4, CallFields
  <2>7. Backed(c)'
    BY <2>4, <2>6 DEF Backed
  <2>8. Fresh(c)'
    BY <1>1, <2>3, <2>4, <2>5, <2>6 DEF Fresh
  <2>. QED
    BY <2>3, <2>7, <2>8
<1>4. CASE RunCommit(s) \/ SkipPart(s)
  <2>1. PICK d : d = call[s]
    OBVIOUS
  <2>2. d \in CommitChecked
    BY <1>1, <1>4, <2>1, CallTells DEF RunCommit, SkipPart, Running
  <2>3. log' = log
    BY <1>4 DEF RunCommit, SkipPart
  <2>4. PICK header \in Spelling \cup {None} :
            /\ PartDone(s, header)
            /\ header # None =>
                  /\ \E sha \in Made' :
                        /\ header = Short(sha)
                        /\ object'[sha].typed = "own" => d.line[1] = object'[sha]
                  /\ Unnamed(header)
    <3>1. CASE SkipPart(s)
      BY <3>1 DEF SkipPart
    <3>2. CASE RunCommit(s)
      <4>1. PICK sha \in Shas \ Made, quiet \in BOOLEAN :
                \E msg \in Written(d.line[d.ran + 1]) :
                    CommitAs(sha, msg) /\ PartDone(s, CommitHeader(sha, quiet))
        BY <2>1, <3>2 DEF RunCommit
      <4>2. PICK msg \in Written(d.line[d.ran + 1]) :
                CommitAs(sha, msg) /\ PartDone(s, CommitHeader(sha, quiet))
        BY <4>1
      <4>3. msg \in Message /\ (msg.typed = "own" => d.line[1] = msg)
        BY <2>2, WrittenFacts
      <4>4. sha \in Made' /\ object'[sha] = msg
        BY <1>1, <4>2, <4>3, CommitTypes
      <4>5. Unnamed(Short(sha))
        <5> SUFFICES ASSUME NEW i \in OfKind(log, "MilestoneShipped"),
                            log[i].body.status = "Verified", log[i].body.commit = Short(sha)
                     PROVE  FALSE
          BY DEF Unnamed
        <5>1. i \in DOMAIN log /\ log[i].body.kind = "MilestoneShipped"
          BY DEF OfKind
        <5>2. PICK x \in Made : Names(log[i].body.commit, x)
          BY <5>1 DEF LogIsTrue, Claim, TrueOfGit
        <5>3. x = sha
          BY <5>2 DEF Names, Short
        <5>. QED
          BY <5>2, <5>3
      <4>6. CommitHeader(sha, quiet) = None \/ CommitHeader(sha, quiet) = Short(sha)
        BY DEF CommitHeader
      <4>7. CommitHeader(sha, quiet) \in Spelling \cup {None}
        BY <4>6, SpellingFacts
      <4>. QED
        BY <4>2, <4>3, <4>4, <4>5, <4>6, <4>7
    <3>. QED
      BY <1>4, <3>1, <3>2
  <2>5. PICK c \in {NoCall} \cup CommitChecked \cup CommitRan :
            /\ call' = [call EXCEPT ![s] = c]
            /\ c # NoCall =>
                  /\ c.line = d.line /\ c.looked = d.looked
                  /\ c.header = IF d.header = None THEN header ELSE d.header
    BY <2>1, <2>2, <2>4, PartFacts DEF Types
  <2>6. call'[s] = c
    BY <1>1, <2>5
  <2>7. CASE c # NoCall
    <3>1. c \in CommitChecked \cup CommitRan
      BY <2>5, <2>7
    <3>2. c \notin RevertRan \cup RevertFound \cup RewriteChecked \cup DetectLoaded
      BY <3>1, CallFields
    <3>3. Backed(d)' /\ Fresh(d)
      <4>1. GitGrows
        BY HookGrowsGit
      <4>. QED
        BY <2>1, <4>1, BackedGrows
    <3>4. Backed(c)'
      BY <2>2, <2>4, <2>5, <2>7, <3>2, <3>3 DEF Backed
    <3>5. /\ c.looked <= Len(log)
          /\ c.looked = Len(log) =>
                /\ Announces(c.line) => Joined(c.line).trailer \notin ShippedMilestones(log)
                /\ c.header # None => Unnamed(c.header)
      BY <2>2, <2>4, <2>5, <2>7, <3>3 DEF Fresh
    <3>6. Unnamed(c.header) => Unnamed(c.header)'
      BY <2>3 DEF Unnamed, OfKind
    <3>7. Fresh(c)'
      BY <2>3, <3>2, <3>5, <3>6 DEF Fresh
    <3>. QED
      BY <2>6, <3>4, <3>7
  <2>. QED
    BY <2>6, <2>7, NoCallIsSound
<1>5. CASE RunRevert(s)
  <2>1. PICK j \in DOMAIN branch, sha \in Shas \ Made, quiet \in BOOLEAN :
            \E token \in {Full(branch[j]), Short(branch[j]), RefName}, detached \in BOOLEAN :
                /\ \E msg \in {RevertMessage(branch[j])} \cup Shared : CommitAs(sha, msg)
                /\ IF RevertHeader(sha, quiet, detached) = None THEN UNCHANGED call
                   ELSE call' = [call EXCEPT ![s] =
                            [tool |-> "revert", pc |-> "ran", original |-> token,
                             header |-> RevertHeader(sha, quiet, detached)]]
    BY <1>5 DEF RunRevert
  <2>2. PICK token \in {Full(branch[j]), Short(branch[j]), RefName}, detached \in BOOLEAN :
            IF RevertHeader(sha, quiet, detached) = None THEN UNCHANGED call
            ELSE call' = [call EXCEPT ![s] =
                     [tool |-> "revert", pc |-> "ran", original |-> token,
                      header |-> RevertHeader(sha, quiet, detached)]]
    BY <2>1
  <2> DEFINE h == RevertHeader(sha, quiet, detached)
  <2>0. PICK c : c = [tool |-> "revert", pc |-> "ran", original |-> token, header |-> h]
    OBVIOUS
  <2>3. call' = call \/ (h # None /\ call'[s] = c)
    BY <1>1, <2>0, <2>2
  <2>4. log' = log /\ call[s] = NoCall
    BY <1>5 DEF RunRevert, Idle
  <2>5. c.tool = "revert" /\ c.pc = "ran" /\ c.original = token /\ c.header = h
    BY <2>0
  <2>6. h # None => h = RefName \/ h = Short(sha)
    BY DEF RevertHeader
  <2>7. branch[j] \in Made /\ branch[j] \in Shas
    BY <1>1 DEF GitTypes
  <2>8. token # RefName => Names(token, branch[j])
    BY <2>7, SpellingFacts
  <2>9. PICK msg \in {RevertMessage(branch[j])} \cup Shared : CommitAs(sha, msg)
    BY <2>1
  <2>10. /\ sha \in Made'
         /\ object'[sha].typed = "own" => object'[sha].quoted /\ object'[sha].cites = branch[j]
    <3>1. msg \in Message
      BY <1>1, <2>7, RevertMessageTypes, HooksAssumption DEF Shared
    <3>2. sha \in Made' /\ object'[sha] = msg
      BY <1>1, <2>9, <3>1, CommitTypes
    <3>3. msg.typed = "own" => msg = RevertMessage(branch[j])
      BY <2>9 DEF Shared
    <3>. QED
      BY <3>2, <3>3 DEF RevertMessage
  <2> HIDE DEF h
  <2>11. c \notin CommitChecked \cup CommitRan \cup RevertFound \cup RewriteChecked
                  \cup DetectLoaded
    BY <2>5, CallFields
  <2>12. h # None => Backed(c)'
    BY <2>5, <2>6, <2>8, <2>10, <2>11 DEF Backed
  <2>13. Fresh(c)'
    BY <2>11 DEF Fresh
  <2>. QED
    BY <2>3, <2>4, <2>12, <2>13, NoCallIsSound
<1>6. CASE LookUpRevert(s)
  <2> DEFINE d == call[s]
             S == ShipsSpelled(d.original)
  <2>0. PICK c : c = [tool |-> "revert", pc |-> "found", original |-> d.original,
                      header |-> d.header, milestone |-> log[Latest(S)].body.milestone]
    OBVIOUS
  <2>1. d \in RevertRan
    BY <1>1, <1>6, CallTells DEF LookUpRevert, Running
  <2>2. call'[s] = IF S = {} THEN NoCall ELSE c
    BY <1>1, <1>6, <2>0 DEF LookUpRevert
  <2>3. object' = object /\ Made' = Made
    BY <1>6 DEF LookUpRevert, gitVars, Made
  <2>4. /\ c.tool = "revert" /\ c.pc = "found"
        /\ c.original = d.original /\ c.header = d.header
    BY <2>0
  <2>5. S # {} => d.original # RefName
    <3> SUFFICES ASSUME NEW i \in S PROVE d.original # RefName
      OBVIOUS
    <3>1. /\ i \in DOMAIN log /\ log[i].body.kind = "MilestoneShipped"
          /\ log[i].body.commit = d.original
      BY DEF ShipsSpelled, OfKind
    <3>. QED
      BY <3>1 DEF LogIsTrue, Claim
  <2> HIDE DEF S
  <2>6. c \notin CommitChecked \cup CommitRan \cup RevertRan \cup RewriteChecked
                 \cup DetectLoaded
    BY <2>4, CallFields
  <2>7. \/ d.header = RefName
        \/ \E sha \in Made' :
              /\ d.header = Short(sha)
              /\ object'[sha].typed = "own" =>
                    /\ object'[sha].quoted
                    /\ d.original # RefName => Names(d.original, object'[sha].cites)
    BY <2>1, <2>3 DEF Backed
  <2>8. S # {} => Backed(c)'
    BY <2>4, <2>5, <2>6, <2>7 DEF Backed
  <2>9. Fresh(c)'
    BY <2>6 DEF Fresh
  <2>. QED
    BY <2>2, <2>8, <2>9, NoCallIsSound
<1>7. CASE StartRewrite(s)
  <2>0. PICK c : c = [tool |-> "rewrite", pc |-> "checked", looked |-> Len(log)]
    OBVIOUS
  <2>1. PICK fragments \in Commands :
            /\ IsDestructive(fragments)
            /\ Exit("guard-rewrite", GuardOutput("block", fragments)) = 0
            /\ call' = [call EXCEPT ![s] = c]
    BY <1>7, <2>0 DEF StartRewrite
  <2>2. call'[s] = c /\ log' = log
    BY <1>1, <1>7, <2>1 DEF StartRewrite
  <2>3. ShippedMilestones(log) = {}
    BY <2>1 DEF Exit, GuardOutput, Guard
  <2>4. c \in RewriteChecked /\ c.looked = Len(log)
    BY <1>1, <2>0 DEF RewriteChecked
  <2>5. c \notin CommitChecked \cup CommitRan \cup RevertRan \cup RevertFound
                 \cup DetectLoaded
    BY <2>4, CallFields
  <2>6. Backed(c)'
    BY <2>5 DEF Backed
  <2>7. Fresh(c)'
    BY <1>1, <2>2, <2>3, <2>4, <2>5 DEF Fresh
  <2>. QED
    BY <2>2, <2>6, <2>7
<1>8. CASE Detect(s)
  <2>1. PICK current \in Models :
            /\ PriorModel \notin {None, current}
            /\ call' = [call EXCEPT ![s] =
                   [tool |-> "detect", pc |-> "loaded", prior |-> PriorModel,
                    current |-> current, looked |-> Len(log)]]
    BY <1>8 DEF Detect
  <2>0. PICK c : c = [tool |-> "detect", pc |-> "loaded", prior |-> PriorModel,
                      current |-> current, looked |-> Len(log)]
    OBVIOUS
  <2>2. call'[s] = c /\ log' = log
    BY <1>1, <1>8, <2>0, <2>1 DEF Detect
  <2>3. /\ c.tool = "detect" /\ c.pc = "loaded" /\ c.looked = Len(log)
        /\ c.prior # c.current
    BY <2>0, <2>1
  <2>4. c \notin CommitChecked \cup CommitRan \cup RevertRan \cup RevertFound
                 \cup RewriteChecked
    BY <2>3, CallFields
  <2>5. Backed(c)'
    BY <2>4 DEF Backed
  <2>6. Fresh(c)'
    BY <1>1, <2>2, <2>3, <2>4 DEF Fresh
  <2>. QED
    BY <2>2, <2>5, <2>6
<1>9. CASE HookEnds(s)
  <2>1. PICK c : c = call'[s]
    OBVIOUS
  <2>2. c = NoCall \/ c = [tool |-> "lost"]
    BY <1>1, <1>9, <2>1, HookEnd DEF Done, Loses
  <2>. QED
    BY <2>1, <2>2, NoCallIsSound
<1>. QED
  BY <1>3, <1>4, <1>5, <1>6, <1>7, <1>8, <1>9 DEF HookStep, HookEnds

-----------------------------------------------------------------------------
(* The inductive invariant *)

IInv ==
    /\ Types
    /\ Legal(log)
    /\ LogIsTrue /\ QueueIsTrue /\ PassIsTrue
    /\ CallsAreBacked /\ CallsAreFresh

LEMMA IInvInit ==
    ASSUME Init
    PROVE  IInv
<1>1. Types
  BY TypesInit
<1>2. log = <<>> /\ queue = <<>> /\ pass.joined = <<>> /\ \A s \in Sessions : call[s] = NoCall
  BY DEF Init, InitHooks, InitReconciler, IdlePass
<1>3. Legal(log) /\ LogIsTrue /\ QueueIsTrue /\ PassIsTrue
  BY <1>2 DEF Legal, LogIsTrue, QueueIsTrue, PassIsTrue
<1>4. NoCall \notin CommitChecked \cup CommitRan \cup RevertRan \cup RevertFound
                    \cup RewriteChecked \cup DetectLoaded
  BY CallFields
<1>5. CallsAreBacked /\ CallsAreFresh
  BY <1>2, <1>4 DEF CallsAreBacked, CallsAreFresh, Backed, Fresh
<1>. QED
  BY <1>1, <1>3, <1>5 DEF IInv

LEMMA IInvNext ==
    ASSUME Modest, IInv, [Next]_vars
    PROVE  IInv'
<1>1. /\ Types /\ LogIsTrue /\ QueueIsTrue /\ PassIsTrue /\ CallsAreBacked /\ CallsAreFresh
      /\ Legal(log)
  BY DEF IInv
<1>2. Types' /\ Records /\ GitGrows /\ PassMoves
  BY <1>1, TypesNext, StepRecords, StepGrowsGit, StepMovesPass
<1>3. \A b \in Voiced : Claim(b)'
  BY <1>1, <1>2, VoicedIsTrue, TruthGrows
<1>4. Legal(log)'
  BY <1>1, <1>2 DEF Records, Grown
<1>5. LogIsTrue'
  <2> SUFFICES ASSUME NEW i \in DOMAIN log' PROVE Claim(log[i].body)'
    BY DEF LogIsTrue
  <2>1. /\ log \in Seq(Event) /\ log' \in Seq(Event) /\ Grown(log, log', Voiced)
    BY <1>1, <1>2 DEF Types, LogTypes, Records
  <2>2. i \in 1..Len(log') /\ Len(log) \in Nat /\ Len(log') \in Nat
    BY <2>1
  <2>3. PICK b : b = log'[i].body
    OBVIOUS
  <2>4. CASE i <= Len(log)
    <3>1. i \in DOMAIN log /\ i \in 1..Len(log)
      BY <2>1, <2>2, <2>4
    <3>2. b = log[i].body
      BY <2>1, <2>3, <3>1 DEF Grown
    <3>3. Claim(b)
      BY <1>1, <3>1, <3>2 DEF LogIsTrue
    <3>4. Claim(b)'
      BY <1>2, <3>3, TruthGrows
    <3>. QED
      BY <2>3, <3>4 DEF Claim, TrueOfGit
  <2>5. CASE i > Len(log)
    <3>1. b \in Voiced
      BY <2>1, <2>3, <2>5 DEF Grown
    <3>2. Claim(b)'
      BY <1>3, <3>1
    <3>. QED
      BY <2>3, <3>2 DEF Claim, TrueOfGit
  <2>. QED
    BY <2>2, <2>4, <2>5
<1>6. QueueIsTrue'
  <2> SUFFICES ASSUME NEW i \in DOMAIN queue' PROVE Claim(queue[i])'
    BY DEF QueueIsTrue
  <2>1. PICK b : b = queue'[i]
    OBVIOUS
  <2>2. b \in Voiced
    BY <1>2, <2>1 DEF Records
  <2>3. Claim(b)'
    BY <1>3, <2>2
  <2>. QED
    BY <2>1, <2>3 DEF Claim, TrueOfGit
<1>7. PassIsTrue'
  <2> SUFFICES ASSUME NEW i \in DOMAIN pass'.joined PROVE Claim(pass.joined[i][2])'
    BY DEF PassIsTrue
  <2>1. PICK b : b = pass'.joined[i][2]
    OBVIOUS
  <2>2. \/ i \in DOMAIN pass.joined /\ pass'.joined[i] = pass.joined[i]
        \/ b \in Claimed
        \/ \E said \in ScanProposals : \E j \in DOMAIN said : b = said[j]
    <3>1. \A j \in DOMAIN log : Claim(log[j].body)
      BY <1>1 DEF LogIsTrue
    <3>. QED
      BY <1>2, <2>1, <3>1 DEF PassMoves
  <2>3. Claim(b)
    BY <1>1, <2>1, <2>2, ModestyIsTrue DEF PassIsTrue, Claimed
  <2>4. Claim(b)'
    BY <1>2, <2>3, TruthGrows
  <2>. QED
    BY <2>1, <2>4 DEF Claim, TrueOfGit
<1>8. ASSUME NEW t \in Sessions
      PROVE  Backed(call[t])' /\ Fresh(call[t])'
  <2>1. Backed(call[t]) /\ Fresh(call[t])
    BY <1>1 DEF CallsAreBacked, CallsAreFresh
  <2>2. CASE call'[t] = call[t]
    <3>1. PICK c : c = call[t]
      OBVIOUS
    <3>2. Backed(c) /\ Fresh(c)
      BY <2>1, <3>1
    <3>3. Backed(c)' /\ Fresh(c)'
      BY <1>1, <1>2, <3>2, BackedGrows, FreshGrows DEF Records
    <3>. QED
      BY <2>2, <3>1, <3>3
  <2>3. CASE HookStep(t)
    BY <1>1, <2>1, <2>3, HookIsSound
  <2>4. ASSUME NEW s \in Sessions, HookStep(s), s # t
        PROVE  call'[t] = call[t]
    BY <1>1, <2>4, HookMovesItsCall
  <2>5. CASE UNCHANGED call
    BY <2>2, <2>5
  <2>6. (\E s \in Sessions : HookStep(s)) \/ UNCHANGED call
    BY DEF Next, Harness, UnheardCommit, LooseRewrite, HarnessSwitch, Subagent, ToolFailure,
           Drain, vars
  <2>. QED
    BY <2>2, <2>3, <2>4, <2>5, <2>6
<1>9. CallsAreBacked' /\ CallsAreFresh'
  BY <1>8 DEF CallsAreBacked, CallsAreFresh
<1>. QED
  BY <1>2, <1>4, <1>5, <1>6, <1>7, <1>9 DEF IInv

\* The invariant of a workbench whose subprocess is modest.
THEOREM WorkbenchInvariant ==
    ASSUME Modest
    PROVE  Spec => []IInv
BY IInvInit, IInvNext, PTL DEF Spec

\* The log is at all times one that an append path may produce.
LEMMA LegalNext ==
    ASSUME Types, Legal(log), [Next]_vars
    PROVE  Legal(log)'
BY StepRecords DEF Records, Grown

\* However hooks, observers and the command line come after one another, and
\* however late a proposal is, each event of the log was admissible where it
\* stands.
THEOREM WorkbenchLogIsLegal == Spec => []Legal(log)
<1>1. Init => Legal(log)
  BY DEF Init, InitHooks, Legal
<1>. QED
  BY <1>1, LegalNext, WorkbenchTypes, PTL DEF Spec

\* No hook, observer or late proposal has the log say of git what is not so: of a
\* commit nothing but that there is one, and of a commit that was written by a line
\* of its own, or that the walk of the branch came to, also what it ships or reverts.
THEOREM WorkbenchLogNamesRealCommits ==
    ASSUME Modest
    PROVE  Spec => []LogNamesRealCommits
<1>1. IInv => LogNamesRealCommits
  BY DEF IInv, LogIsTrue, Claim, LogNamesRealCommits
<1>. QED
  BY <1>1, WorkbenchInvariant, PTL

-----------------------------------------------------------------------------
(* Hooks *)

\* An event of a legal log only ever supersedes one before it.
LEMMA SupersedesThePast ==
    ASSUME NEW l \in Seq(Event), Legal(l), NEW j \in OfKind(l, "EventSuperseded")
    PROVE  l[j].body.target \in Nat /\ l[j].body.target < j
<1>1. j \in 1..Len(l) /\ l[j].body.kind = "EventSuperseded" /\ j \in DOMAIN l /\ Len(l) \in Nat
  BY DEF OfKind
<1>2. CanSupersede(Prefix(l, j - 1), l[j].body)
  BY <1>1 DEF Legal, Admissible, Precondition
<1>3. j - 1 \in 0..Len(l)
  BY <1>1
<1>4. DOMAIN Prefix(l, j - 1) = 1..(j - 1)
  BY <1>3, PrefixFacts
<1>5. l[j].body.target \in 1..(j - 1)
  BY <1>2, <1>4 DEF CanSupersede
<1>. QED
  BY <1>1, <1>5

\* A switch that has just been recorded ends the timeline.
LEMMA SwitchEndsTimeline ==
    ASSUME NEW l \in Seq(Event), Legal(l), NEW e \in Event, e.body.kind = "ModelSwitched"
    PROVE  LET T == ModelTimeline(Append(l, e)) IN T[Len(T)] = e.body.to
<1> DEFINE k == Append(l, e)
           n == Len(l) + 1
           S == EffectiveOf(k, "ModelSwitched")
           A == Ascending(S)
           T == ModelTimeline(k)
<1>1. /\ k \in Seq(Event) /\ Len(k) = n /\ DOMAIN k = 1..n /\ k[n] = e /\ n \in Nat
      /\ \A i \in 1..Len(l) : k[i] = l[i]
  BY AppendFacts
<1>2. n \notin Superseded(k)
  <2> SUFFICES ASSUME NEW j \in OfKind(k, "EventSuperseded"), k[j].body.target = n
               PROVE  FALSE
    BY DEF Superseded
  <2>1. j \in 1..n /\ k[j].body.kind = "EventSuperseded"
    BY <1>1 DEF OfKind
  <2>2. j # n
    BY <1>1, <2>1
  <2>3. j \in 1..Len(l) /\ j \in DOMAIN l
    BY <2>1, <2>2
  <2>4. k[j] = l[j]
    BY <1>1, <2>3
  <2>5. j \in OfKind(l, "EventSuperseded")
    BY <2>1, <2>3, <2>4 DEF OfKind
  <2>6. l[j].body.target \in Nat /\ l[j].body.target < j
    BY <2>5, SupersedesThePast
  <2>. QED
    BY <2>1, <2>4, <2>6
<1>3. n \in S
  <2>1. n \in DOMAIN k /\ k[n].body.kind = "ModelSwitched"
    BY <1>1
  <2> HIDE DEF k, n
  <2>. QED
    BY <1>2, <2>1 DEF EffectiveOf, OfKind, Effective
<1>4. /\ S \in SUBSET (1..n) /\ Cardinality(S) \in Nat
      /\ T \in Seq(Models) /\ Len(T) = Cardinality(S)
      /\ \A i \in 1..Cardinality(S) : T[i] = k[A[i]].body.to
  <2> HIDE DEF k, n
  <2>. QED
    BY <1>1, TimelineFacts
<1> HIDE DEF k, n, S, T
<1>5. /\ \A i \in 1..Cardinality(S) : A[i] \in S
      /\ \A x \in S : \E i \in 1..Cardinality(S) : A[i] = x
      /\ \A i, j \in 1..Cardinality(S) : A[i] < A[j] <=> i < j
  BY <1>1, <1>4, AscendingFacts
<1> HIDE DEF A
<1>6. PICK i \in 1..Cardinality(S) : A[i] = n
  BY <1>3, <1>5
<1>7. Cardinality(S) \in 1..Cardinality(S)
  BY <1>4, <1>6
<1>8. A[Cardinality(S)] \in 1..n
  BY <1>4, <1>5, <1>7
<1>9. ~(i < Cardinality(S))
  <2>1. i < Cardinality(S) <=> A[i] < A[Cardinality(S)]
    BY <1>5, <1>7
  <2>. QED
    BY <1>1, <1>6, <1>8, <2>1
<1>10. i = Cardinality(S)
  BY <1>4, <1>9
<1>11. T[Len(T)] = k[n].body.to
  BY <1>4, <1>6, <1>7, <1>10
<1>. QED
  BY <1>1, <1>11 DEF T, k

\* A call that ends was ended by a hook of its own session.
LEMMA CallEndedByItsHook ==
    ASSUME Types, [Next]_vars, NEW s \in Sessions, call[s] # NoCall, call'[s] = NoCall
    PROVE  HookStep(s)
<1>1. ASSUME NEW t \in Sessions, HookStep(t)
      PROVE  t = s
  BY <1>1, HookMovesItsCall
<1>2. (\E t \in Sessions : HookStep(t)) \/ UNCHANGED call
  BY DEF Next, Harness, UnheardCommit, LooseRewrite, HarnessSwitch, Subagent, ToolFailure,
         Drain, vars
<1>. QED
  BY <1>1, <1>2

LEMMA CommitsShip ==
    ASSUME IInv, [Next]_vars, NEW s \in Sessions, Running(s, "commit", "ran")
    PROVE  CheckedCommitsShip(s)
<1> DEFINE c == call[s]
           heard == Joined(c.line)
<1> SUFFICES ASSUME NEW b \in VerifyProposal(heard, c.header),
                    c.line[1].typed # "indirect", Unmoved(s),
                    b.commit_kind \in Implementation,
                    CurrentStatus(log) \notin TerminalStatuses,
                    call'[s] = NoCall, \A i \in DOMAIN queue' : queue'[i] # b
             PROVE  log' = Append(log, Stamped(log, b, 0))
  BY DEF CheckedCommitsShip
<1>1. /\ Types /\ CallsAreFresh /\ log \in Seq(Event) /\ LogTypes
      /\ call[s] \in Call
  BY DEF IInv, Types, LogTypes, CallTypes
<1>2. c \in CommitRan /\ c.line \in Lines /\ c.header \in Spelling /\ c.header # None
  <2>1. c \in CommitRan
    BY <1>1, CallTells DEF Running
  <2>. QED
    BY <2>1, SpellingAssumption DEF CommitRan
<1>3. heard \in Message /\ heard # None
  BY <1>2, LineFacts
<1>4. /\ b \in EventBody /\ Accepted(heard) /\ VerifyProposal(heard, c.header) = {b}
      /\ b = [kind |-> "MilestoneShipped", milestone |-> heard.trailer,
              commit |-> c.header, commit_kind |-> ParseConventional(heard),
              status |-> "Verified"]
  BY <1>2, <1>3, ProposalsAreShips
<1>5. c.tool = "commit" /\ c.pc = "ran" /\ c # NoCall
  BY <1>2, CallFields
<1>6. HookStep(s)
  BY <1>1, <1>5, CallEndedByItsHook
<1>7. RecordCommit(s)
  <2>1. ~Idle(s)
    BY <1>5 DEF Idle
  <2>. QED
    BY <1>5, <1>6, <2>1 DEF HookStep, CheckCommit, RunCommit, SkipPart, CommitFails, RunRevert,
       LookUpRevert, RecordRevert, StartRewrite, RunRewrite, Detect, RecordSwitch, Warn, Running
<1>8. PostToolAppend(s, b)
  <2>1. \A x \in ExtractMessage(c.line, Texts) : Proposals(x, c.header) = {b}
    BY <1>2, <1>3, <1>4, HeardFacts DEF Proposals
  <2>. QED
    BY <1>7, <2>1 DEF RecordCommit
<1>9. Offer(b)
  <2>1. ~Loses(s)
    BY <1>1, CallFields DEF Loses, Types, CallTypes
  <2>2. queue' # Append(Spilled, b)
    <3>1. PICK kept : kept = Spilled
      OBVIOUS
    <3>2. kept \in Seq(EventBody) /\ Len(kept) \in Nat
      BY <1>1, <3>1, SpilledFacts
    <3>3. Len(kept) + 1 \in DOMAIN Append(kept, b) /\ Append(kept, b)[Len(kept) + 1] = b
      BY <1>4, <3>2
    <3>. QED
      BY <3>1, <3>3
  <2>. QED
    BY <1>8, <2>1, <2>2 DEF PostToolAppend
<1>10. Admissible(log, b)
  <2>1. Fresh(c) /\ c.looked = Len(log)
    BY <1>1 DEF CallsAreFresh, Unmoved
  <2>2. heard.trailer \notin ShippedMilestones(log) /\ Unnamed(c.header)
    BY <1>2, <1>4, <2>1 DEF Fresh, Announces
  <2>3. /\ b.kind = "MilestoneShipped" /\ b.milestone = heard.trailer /\ b.status = "Verified"
        /\ b.commit = c.header
    BY <1>4
  <2>4. ~IsDuplicate(log, b)
    <3> SUFFICES ASSUME NEW i \in DOMAIN log, b = log[i].body
                 PROVE  FALSE
      BY DEF IsDuplicate, Fingerprints, Fingerprint
    <3>. QED
      BY <2>2, <2>3 DEF Unnamed, OfKind
  <2>5. CanShip(log, b)
    BY <2>2, <2>3 DEF CanShip
  <2>6. AcceptsKind(log, b.kind)
    BY DEF AcceptsKind
  <2>. QED
    BY <2>3, <2>4, <2>5, <2>6 DEF Admissible, Precondition
<1>. QED
  BY <1>9, <1>10 DEF Offer, Offered

LEMMA GuardSpares ==
    ASSUME IInv, NEW s \in Sessions
    PROVE  GuardedRewritesSpareShips(s)
<1> SUFFICES ASSUME Running(s, "rewrite", "checked"), Unmoved(s)
             PROVE  ShippedMilestones(log) = {}
  BY DEF GuardedRewritesSpareShips
<1>1. call[s] \in Call /\ Fresh(call[s])
  BY DEF IInv, Types, CallTypes, CallsAreFresh
<1>2. call[s] \in RewriteChecked
  BY <1>1, CallTells DEF Running
<1>. QED
  BY <1>1, <1>2 DEF Fresh, Unmoved

LEMMA DetectorsEndTimeline ==
    ASSUME IInv, [Next]_vars, NEW s \in Sessions
    PROVE  DetectorsCatchUp(s)
<1> DEFINE c == call[s]
           b == Switch(c.prior, c.current)
<1> SUFFICES ASSUME Running(s, "detect", "loaded"), call'[s] = NoCall,
                    ~IsDuplicate(log, b), CurrentStatus(log) \notin TerminalStatuses
             PROVE  ModelTimeline(log')[Len(ModelTimeline(log'))] = c.current
  BY DEF DetectorsCatchUp
<1>1. Types /\ Fresh(c) /\ log \in Seq(Event) /\ Legal(log) /\ c \in Call
  BY DEF IInv, Types, LogTypes, CallTypes, CallsAreFresh
<1>2. c \in DetectLoaded
  BY <1>1, CallTells DEF Running
<1>3. c.tool = "detect" /\ c.pc = "loaded" /\ c # NoCall
  BY <1>2, CallFields
<1>4. HookStep(s)
  BY <1>1, <1>3, CallEndedByItsHook
<1>5. RecordSwitch(s)
  <2>1. ~Idle(s)
    BY <1>3 DEF Idle
  <2>. QED
    BY <1>3, <1>4, <2>1 DEF HookStep, CheckCommit, RunCommit, SkipPart, CommitFails,
       RecordCommit, RunRevert, LookUpRevert, RecordRevert, StartRewrite, RunRewrite, Detect,
       Warn, Running
<1>6. /\ b \in ModelSwitched /\ b.kind = "ModelSwitched" /\ b.from # b.to
      /\ b.to = c.current
  BY <1>1, <1>2 DEF Switch, ModelSwitched, DetectLoaded, Fresh
<1>7. b \in EventBody /\ log' = Offered(log, b)
  <2>1. ~Loses(s)
    BY <1>1, CallFields DEF Loses, Types, CallTypes
  <2>. QED
    BY <1>5, <1>6, <2>1 DEF EventBody, RecordSwitch, Offer
<1> HIDE DEF b
<1>8. Admissible(log, b)
  BY <1>6 DEF Admissible, Precondition, AcceptsKind, CanSwitchModel
<1> DEFINE e == Stamped(log, b, 0)
<1>9. log' = Append(log, e)
  BY <1>7, <1>8 DEF Offered
<1>10. e \in Event /\ e.body = b
  <2>1. 0 \in 0..MaxTime
    BY ClockAssumption
  <2>2. e \in Event
    BY <1>1, <1>7, <2>1, StampedIsEvent
  <2>. QED
    BY <2>2 DEF Stamped
<1> HIDE DEF e
<1>. QED
  BY <1>1, <1>6, <1>9, <1>10, SwitchEndsTimeline

\* A hook decides on one log and records on another.  Where nothing came
\* between, a commit that was let pass is recorded as the ship its line announces,
\* queued or lost, a rewrite that was let pass takes no shipped commit off the
\* branch, and a model that was detected ends the timeline, unless its event is lost.
THEOREM WorkbenchHooksActOnWhatTheySaw ==
    ASSUME Modest
    PROVE  Spec => HooksActOnWhatTheySaw
<1>1. ASSUME IInv, [Next]_vars
      PROVE  [\A s \in Sessions :
                 /\ call[s].tool = "commit" /\ call[s].pc = "ran" => CheckedCommitsShip(s)
                 /\ GuardedRewritesSpareShips(s)
                 /\ DetectorsCatchUp(s)]_vars
  BY <1>1, CommitsShip, GuardSpares, DetectorsEndTimeline DEF Running
<1>. QED
  BY <1>1, WorkbenchInvariant, PTL DEF Spec, HooksActOnWhatTheySaw
=============================================================================
