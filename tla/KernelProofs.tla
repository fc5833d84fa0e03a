---------------------------- MODULE KernelProofs ----------------------------
(***************************************************************************)
(* Lemmas about the operators of Kernel: positions, prefixes, stamps, and  *)
(* the step from one legal log to the next.                                *)
(***************************************************************************)
EXTENDS Kernel, SequenceTheorems, FiniteSetTheorems, WellFoundedInduction, TLAPS

-----------------------------------------------------------------------------
(* Sets of positions *)

\* A non-empty set of naturals has a least element.
LEMMA EarliestExists ==
    ASSUME NEW S \in SUBSET Nat, S # {}
    PROVE  \E m \in S : \A k \in S : m <= k
<1> DEFINE R == {ss \in Nat \X Nat : ss[1] < ss[2]}
<1>1. IsWellFoundedOn(R, Nat)
  BY NatLessThanWellFounded DEF OpToRel
<1>2. PICK m \in S : \A k \in S : <<k, m>> \notin R
  <2>. HIDE DEF R
  <2>. QED
    BY <1>1, WFMin
<1>3. ASSUME NEW k \in S
      PROVE  m <= k
  <2>1. <<k, m>> \in Nat \X Nat /\ <<k, m>>[1] = k /\ <<k, m>>[2] = m
    OBVIOUS
  <2>2. k < m => <<k, m>> \in R
    BY <2>1
  <2>. QED
    BY <1>2, <2>2
<1>. QED
  BY <1>3

\* A non-empty set of positions of a log has a greatest element.
LEMMA LatestExists ==
    ASSUME NEW n \in Nat, NEW S \in SUBSET (1..n), S # {}
    PROVE  Latest(S) \in S /\ \A k \in S : k <= Latest(S)
<1> DEFINE T == {n - k : k \in S}
<1>1. T \in SUBSET Nat /\ T # {}
  <2>1. \A k \in S : k \in Int /\ k <= n /\ n - k \in Nat
    OBVIOUS
  <2>2. PICK k \in S : TRUE
    OBVIOUS
  <2>. QED
    BY <2>1, <2>2
<1>2. PICK t \in T : \A u \in T : t <= u
  BY <1>1, EarliestExists
<1>3. PICK m \in S : t = n - m
  OBVIOUS
<1>4. ASSUME NEW k \in S
      PROVE  k <= m
  <2>1. n - k \in T
    OBVIOUS
  <2>2. n - m <= n - k
    BY <1>2, <1>3, <2>1
  <2>3. k \in Int /\ m \in Int
    OBVIOUS
  <2>. QED
    BY <2>2, <2>3
<1>. QED
  BY <1>4 DEF Latest
-----------------------------------------------------------------------------
(* Sorting a finite set *)

\* R orders the elements of S, strictly and totally.
Orders(R, S) ==
    /\ \A x \in S : <<x, x>> \notin R
    /\ \A x, y, z \in S : <<x, y>> \in R /\ <<y, z>> \in R => <<x, z>> \in R
    /\ \A x, y \in S : x = y \/ <<x, y>> \in R \/ <<y, x>> \in R

Below(x, S, R) == {y \in S : <<y, x>> \in R}

\* The number of elements before another is less than that of all of them.
LEMMA PlaceInRange ==
    ASSUME NEW S, IsFiniteSet(S), NEW R, Orders(R, S), NEW x \in S
    PROVE  /\ IsFiniteSet(Below(x, S, R))
           /\ Cardinality(Below(x, S, R)) \in 0..(Cardinality(S) - 1)
<1>1. Below(x, S, R) \in SUBSET S /\ x \notin Below(x, S, R)
  BY DEF Below, Orders
<1>2. /\ IsFiniteSet(Below(x, S, R))
      /\ Cardinality(Below(x, S, R)) <= Cardinality(S)
      /\ Cardinality(Below(x, S, R)) # Cardinality(S)
  BY <1>1, FS_Subset
<1>3. Cardinality(S) \in Nat /\ Cardinality(Below(x, S, R)) \in Nat
  BY <1>2, FS_CardinalityType
<1>. QED
  BY <1>2, <1>3

\* An element that is before another has fewer before it.
LEMMA PlacesGrow ==
    ASSUME NEW S, IsFiniteSet(S), NEW R, Orders(R, S),
           NEW x \in S, NEW y \in S, <<x, y>> \in R
    PROVE  Cardinality(Below(x, S, R)) < Cardinality(Below(y, S, R))
<1>1. Below(x, S, R) \in SUBSET Below(y, S, R)
  BY DEF Below, Orders
<1>2. x \in Below(y, S, R) /\ x \notin Below(x, S, R)
  BY DEF Below, Orders
<1>3. /\ Cardinality(Below(x, S, R)) <= Cardinality(Below(y, S, R))
      /\ Cardinality(Below(x, S, R)) # Cardinality(Below(y, S, R))
  BY <1>1, <1>2, PlaceInRange, FS_Subset
<1>4. Cardinality(Below(x, S, R)) \in Int /\ Cardinality(Below(y, S, R)) \in Int
  BY PlaceInRange, FS_CardinalityType
<1>. QED
  BY <1>3, <1>4

\* No two elements have the same place.
LEMMA PlacesDiffer ==
    ASSUME NEW S, IsFiniteSet(S), NEW R, Orders(R, S), NEW x \in S, NEW y \in S,
           Cardinality(Below(x, S, R)) = Cardinality(Below(y, S, R))
    PROVE  x = y
<1>1. Cardinality(Below(x, S, R)) \in Nat
  BY PlaceInRange, FS_CardinalityType
<1>2. <<x, y>> \notin R /\ <<y, x>> \notin R
  BY <1>1, PlacesGrow
<1>. QED
  BY <1>2 DEF Orders

\* Every place is taken.
LEMMA PlacesFilled ==
    ASSUME NEW S, IsFiniteSet(S), NEW R, Orders(R, S), NEW k \in 1..Cardinality(S)
    PROVE  \E x \in S : Cardinality(Below(x, S, R)) = k - 1
<1> DEFINE place == [x \in S |-> Cardinality(Below(x, S, R))]
           places == 0..(Cardinality(S) - 1)
<1>1. Cardinality(S) \in Nat
  BY FS_CardinalityType
<1>2. IsFiniteSet(places) /\ Cardinality(places) = Cardinality(S)
  <2>1. 0 \in Int /\ Cardinality(S) - 1 \in Int
    BY <1>1
  <2>2. /\ IsFiniteSet(places)
        /\ Cardinality(places) = IF 0 > Cardinality(S) - 1 THEN 0
                                 ELSE (Cardinality(S) - 1) - 0 + 1
    BY <2>1, FS_Interval
  <2> HIDE DEF places
  <2>. QED
    BY <1>1, <2>2
<1>3. place \in Injection(S, places)
  <2>1. place \in [S -> places]
    BY PlaceInRange
  <2>2. \A x, y \in S : place[x] = place[y] => x = y
    BY PlacesDiffer
  <2> HIDE DEF place, places
  <2>. QED
    BY <2>1, <2>2 DEF Injection, IsInjective
<1>4. place \in Surjection(S, places)
  <2> HIDE DEF place, places
  <2>. QED
    BY <1>2, <1>3, FS_Injection
<1>5. k - 1 \in places
  BY <1>1
<1>6. \E x \in S : place[x] = k - 1
  <2> HIDE DEF place, places
  <2>. QED
    BY <1>4, <1>5 DEF Surjection
<1>. QED
  BY <1>6

\* Sorting lists the elements of the set, each once, the earlier ones first.
LEMMA InOrderFacts ==
    ASSUME NEW S, IsFiniteSet(S), NEW R, Orders(R, S)
    PROVE  /\ Cardinality(S) \in Nat
           /\ InOrder(S, R) \in Seq(S)
           /\ Len(InOrder(S, R)) = Cardinality(S)
           /\ DOMAIN InOrder(S, R) = 1..Cardinality(S)
           /\ \A k \in 1..Cardinality(S) :
                 /\ InOrder(S, R)[k] \in S
                 /\ Cardinality(Below(InOrder(S, R)[k], S, R)) = k - 1
           /\ \A x \in S : \E k \in 1..Cardinality(S) : InOrder(S, R)[k] = x
           /\ \A i, k \in 1..Cardinality(S) : <<InOrder(S, R)[i], InOrder(S, R)[k]>> \in R <=> i < k
<1> DEFINE n == Cardinality(S)
           f == InOrder(S, R)
<1>1. n \in Nat
  BY FS_CardinalityType
<1>2. f = [k \in 1..n |-> CHOOSE x \in S : Cardinality(Below(x, S, R)) = k - 1]
  BY DEF InOrder, Below
<1>3. ASSUME NEW k \in 1..n
      PROVE  f[k] \in S /\ Cardinality(Below(f[k], S, R)) = k - 1
  <2>1. f[k] = CHOOSE x \in S : Cardinality(Below(x, S, R)) = k - 1
    BY <1>2
  <2> HIDE DEF f
  <2>2. \E x \in S : Cardinality(Below(x, S, R)) = k - 1
    BY PlacesFilled
  <2>. QED
    BY <2>1, <2>2
<1>4. f \in Seq(S) /\ Len(f) = n /\ DOMAIN f = 1..n
  <2>1. f \in [1..n -> S]
    BY <1>2, <1>3
  <2> HIDE DEF f
  <2>. QED
    BY <1>1, <2>1
<1>5. ASSUME NEW x \in S
      PROVE  \E k \in 1..n : f[k] = x
  <2>1. Cardinality(Below(x, S, R)) + 1 \in 1..n
    BY <1>1, PlaceInRange
  <2>2. PICK k \in 1..n : Cardinality(Below(x, S, R)) = k - 1
    BY <1>1, <2>1, PlaceInRange
  <2>3. f[k] \in S /\ Cardinality(Below(f[k], S, R)) = Cardinality(Below(x, S, R))
    BY <1>3, <2>2
  <2> HIDE DEF f
  <2>4. f[k] = x
    BY <2>3, PlacesDiffer
  <2>. QED
    BY <2>4
<1>6. ASSUME NEW i \in 1..n, NEW k \in 1..n
      PROVE  <<f[i], f[k]>> \in R <=> i < k
  <2>1. /\ f[i] \in S /\ Cardinality(Below(f[i], S, R)) = i - 1
        /\ f[k] \in S /\ Cardinality(Below(f[k], S, R)) = k - 1
    BY <1>3
  <2>2. i \in Int /\ k \in Int
    BY <1>1
  <2> HIDE DEF f
  <2>3. <<f[i], f[k]>> \in R => i - 1 < k - 1
    BY <2>1, PlacesGrow
  <2>4. <<f[k], f[i]>> \in R => k - 1 < i - 1
    BY <2>1, PlacesGrow
  <2>5. f[i] = f[k] \/ <<f[i], f[k]>> \in R \/ <<f[k], f[i]>> \in R
    BY <2>1 DEF Orders
  <2>6. f[i] = f[k] => i = k
    BY <2>1, <2>2
  <2>. QED
    BY <2>2, <2>3, <2>4, <2>5, <2>6
<1>. QED
  BY <1>1, <1>3, <1>4, <1>5, <1>6

\* Sets that correspond, and their orders with them.
LEMMA OrderTransport ==
    ASSUME NEW S, IsFiniteSet(S), NEW R, Orders(R, S),
           NEW T, NEW Q, NEW h \in Bijection(S, T),
           \A x, y \in S : <<h[x], h[y]>> \in Q <=> <<x, y>> \in R
    PROVE  IsFiniteSet(T) /\ Orders(Q, T) /\ Cardinality(T) = Cardinality(S)
<1>1. /\ h \in [S -> T]
      /\ \A x, y \in S : h[x] = h[y] => x = y
      /\ \A t \in T : \E x \in S : h[x] = t
  BY DEF Bijection, Injection, Surjection, IsInjective
<1>2. IsFiniteSet(T) /\ Cardinality(T) = Cardinality(S)
  BY FS_Bijection DEF ExistsBijection
<1>3. ASSUME NEW t \in T
      PROVE  <<t, t>> \notin Q
  BY <1>1 DEF Orders
<1>4. ASSUME NEW t \in T, NEW u \in T
      PROVE  t = u \/ <<t, u>> \in Q \/ <<u, t>> \in Q
  <2>1. PICK x \in S, y \in S : h[x] = t /\ h[y] = u
    BY <1>1
  <2>2. x = y \/ <<x, y>> \in R \/ <<y, x>> \in R
    BY DEF Orders
  <2>. QED
    BY <2>1, <2>2
<1>5. ASSUME NEW t \in T, NEW u \in T, NEW v \in T, <<t, u>> \in Q, <<u, v>> \in Q
      PROVE  <<t, v>> \in Q
  <2>1. PICK x \in S, y \in S, z \in S : h[x] = t /\ h[y] = u /\ h[z] = v
    BY <1>1
  <2>2. <<x, y>> \in R /\ <<y, z>> \in R
    BY <1>5, <2>1
  <2>3. <<x, z>> \in R
    BY <2>2 DEF Orders
  <2>. QED
    BY <2>1, <2>3
<1>. QED
  BY <1>2, <1>3, <1>4, <1>5 DEF Orders

\* They are listed in corresponding ways.
LEMMA InOrderTransport ==
    ASSUME NEW S, IsFiniteSet(S), NEW R, Orders(R, S),
           NEW T, NEW Q, NEW h \in Bijection(S, T),
           \A x, y \in S : <<h[x], h[y]>> \in Q <=> <<x, y>> \in R,
           NEW k \in 1..Cardinality(S)
    PROVE  InOrder(T, Q)[k] = h[InOrder(S, R)[k]]
<1>1. /\ h \in [S -> T]
      /\ \A x, y \in S : h[x] = h[y] => x = y
      /\ \A t \in T : \E x \in S : h[x] = t
  BY DEF Bijection, Injection, Surjection, IsInjective
<1>2. IsFiniteSet(T) /\ Orders(Q, T) /\ Cardinality(T) = Cardinality(S)
  BY OrderTransport
<1>3. ASSUME NEW x \in S
      PROVE  Cardinality(Below(h[x], T, Q)) = Cardinality(Below(x, S, R))
  <2> DEFINE g == [y \in Below(x, S, R) |-> h[y]]
  <2>1. g \in [Below(x, S, R) -> Below(h[x], T, Q)]
    BY <1>1 DEF Below
  <2>2. \A y, z \in Below(x, S, R) : g[y] = g[z] => y = z
    BY <1>1 DEF Below
  <2>3. \A t \in Below(h[x], T, Q) : \E y \in Below(x, S, R) : g[y] = t
    <3>1. SUFFICES ASSUME NEW t \in Below(h[x], T, Q)
                   PROVE  \E y \in Below(x, S, R) : h[y] = t
      OBVIOUS
    <3>2. PICK y \in S : h[y] = t
      BY <1>1 DEF Below
    <3>3. <<h[y], h[x]>> \in Q
      BY <3>2 DEF Below
    <3>. QED
      BY <3>2, <3>3 DEF Below
  <2> HIDE DEF g
  <2>4. g \in Bijection(Below(x, S, R), Below(h[x], T, Q))
    BY <2>1, <2>2, <2>3 DEF Bijection, Injection, Surjection, IsInjective
  <2>5. IsFiniteSet(Below(x, S, R))
    BY PlaceInRange
  <2>. QED
    BY <2>4, <2>5, FS_Bijection DEF ExistsBijection
<1>4. InOrder(S, R)[k] \in S /\ Cardinality(Below(InOrder(S, R)[k], S, R)) = k - 1
  BY InOrderFacts
<1>5. InOrder(T, Q)[k] \in T /\ Cardinality(Below(InOrder(T, Q)[k], T, Q)) = k - 1
  BY <1>2, InOrderFacts
<1>6. /\ h[InOrder(S, R)[k]] \in T
      /\ Cardinality(Below(h[InOrder(S, R)[k]], T, Q)) = k - 1
  BY <1>1, <1>3, <1>4
<1>. QED
  BY <1>2, <1>5, <1>6, PlacesDiffer

\* Positions are listed from the first to the last.
LEMMA AscendingFacts ==
    ASSUME NEW n \in Nat, NEW S \in SUBSET (1..n)
    PROVE  /\ Cardinality(S) \in Nat
           /\ Ascending(S) \in Seq(S)
           /\ Len(Ascending(S)) = Cardinality(S)
           /\ DOMAIN Ascending(S) = 1..Cardinality(S)
           /\ \A k \in 1..Cardinality(S) : Ascending(S)[k] \in S
           /\ \A x \in S : \E k \in 1..Cardinality(S) : Ascending(S)[k] = x
           /\ \A i, k \in 1..Cardinality(S) : Ascending(S)[i] < Ascending(S)[k] <=> i < k
<1> DEFINE R == {pair \in S \X S : pair[1] < pair[2]}
<1>1. \A x, y \in S : <<x, y>> \in R <=> x < y
  <2>1. \A x, y \in S : <<x, y>> \in S \X S /\ <<x, y>>[1] = x /\ <<x, y>>[2] = y
    OBVIOUS
  <2>. QED
    BY <2>1
<1>2. IsFiniteSet(S)
  <2>1. 1 \in Int /\ n \in Int
    OBVIOUS
  <2>2. IsFiniteSet(1..n)
    BY <2>1, FS_Interval
  <2>. QED
    BY <2>2, FS_Subset
<1>3. Orders(R, S)
  <2> HIDE DEF R
  <2>. QED
    BY <1>1 DEF Orders
<1>4. Ascending(S) = InOrder(S, R)
  BY DEF Ascending
<1> HIDE DEF R
<1>5. /\ Cardinality(S) \in Nat
      /\ InOrder(S, R) \in Seq(S)
      /\ Len(InOrder(S, R)) = Cardinality(S)
      /\ DOMAIN InOrder(S, R) = 1..Cardinality(S)
      /\ \A k \in 1..Cardinality(S) : InOrder(S, R)[k] \in S
      /\ \A x \in S : \E k \in 1..Cardinality(S) : InOrder(S, R)[k] = x
  BY ONLY <1>2, <1>3, InOrderFacts
<1>6. \A i, k \in 1..Cardinality(S) :
          <<InOrder(S, R)[i], InOrder(S, R)[k]>> \in R <=> i < k
  BY ONLY <1>2, <1>3, InOrderFacts
<1>. QED
  BY <1>1, <1>4, <1>5, <1>6

-----------------------------------------------------------------------------
(* Prefixes *)

\* A prefix of a log is a log that agrees with it.
LEMMA PrefixFacts ==
    ASSUME NEW l \in Seq(Event), NEW n \in 0..Len(l)
    PROVE  /\ Prefix(l, n) \in Seq(Event)
           /\ Len(Prefix(l, n)) = n
           /\ DOMAIN Prefix(l, n) = 1..n
           /\ \A i \in 1..n : Prefix(l, n)[i] = l[i]
BY SubSeqProperties DEF Prefix

\* Appending an event adds one position and changes none.
LEMMA AppendFacts ==
    ASSUME NEW l \in Seq(Event), NEW e \in Event
    PROVE  /\ Append(l, e) \in Seq(Event)
           /\ Len(Append(l, e)) = Len(l) + 1
           /\ DOMAIN Append(l, e) = 1..(Len(l) + 1)
           /\ \A i \in 1..Len(l) : Append(l, e)[i] = l[i]
           /\ Append(l, e)[Len(l) + 1] = e
BY AppendProperties

\* Appending leaves every prefix of the old log as it was.
LEMMA PrefixOfAppend ==
    ASSUME NEW l \in Seq(Event), NEW e \in Event, NEW n \in 0..Len(l)
    PROVE  Prefix(Append(l, e), n) = Prefix(l, n)
<1>1. Append(l, e) \in Seq(Event) /\ n \in 0..Len(Append(l, e))
  BY AppendFacts
<1>2. /\ Prefix(Append(l, e), n) \in Seq(Event)
      /\ Len(Prefix(Append(l, e), n)) = n
      /\ \A i \in 1..n : Prefix(Append(l, e), n)[i] = Append(l, e)[i]
  BY <1>1, PrefixFacts
<1>3. /\ Prefix(l, n) \in Seq(Event)
      /\ Len(Prefix(l, n)) = n
      /\ \A i \in 1..n : Prefix(l, n)[i] = l[i]
  BY PrefixFacts
<1>4. \A i \in 1..n : Prefix(Append(l, e), n)[i] = Prefix(l, n)[i]
  BY <1>2, <1>3, AppendFacts
<1>. QED
  BY <1>2, <1>3, <1>4, SeqEqual

\* An event that stands in a log stands in each prefix that contains it:
\* supersede is final, nothing is ever resurrected.
LEMMA EffectiveInPrefix ==
    ASSUME NEW l \in Seq(Event), NEW n \in 0..Len(l), NEW kind,
           NEW i \in EffectiveOf(l, kind), i <= n
    PROVE  i \in EffectiveOf(Prefix(l, n), kind)
<1>1. i \in 1..n /\ l[i].body.kind = kind /\ i \notin Superseded(l)
  BY DEF EffectiveOf, OfKind, Effective
<1>2. Superseded(Prefix(l, n)) \subseteq Superseded(l)
  BY PrefixFacts DEF Superseded, OfKind
<1>. QED
  BY <1>1, <1>2, PrefixFacts DEF EffectiveOf, OfKind, Effective

-----------------------------------------------------------------------------
(* Stamps and legality *)

\* A stamp is a representable time, and so the stamped body an event.
LEMMA StampedIsEvent ==
    ASSUME NEW l \in Seq(Event), NEW b \in EventBody, NEW now \in 0..MaxTime
    PROVE  Stamped(l, b, now) \in Event
<1>1. l # <<>> => l[Len(l)].at \in 0..MaxTime
  <2>1. l # <<>> => l[Len(l)] \in Event
    OBVIOUS
  <2>. QED
    BY <2>1, Zenon DEF Event
<1>2. StampMonotonic(now, l) \in 0..MaxTime
  BY <1>1, ClockAssumption DEF StampMonotonic
<1>. QED
  BY <1>2 DEF Stamped, Event

\* Recording an admissible event keeps a log legal.
LEMMA LegalAppend ==
    ASSUME NEW l \in Seq(Event), Legal(l), NEW b \in EventBody, NEW now \in 0..MaxTime,
           Admissible(l, b)
    PROVE  Legal(Append(l, Stamped(l, b, now)))
<1> DEFINE e == Stamped(l, b, now)
           k == Append(l, e)
<1>1. e \in Event /\ e.body = b /\ e.at = StampMonotonic(now, l)
  BY StampedIsEvent DEF Stamped
<1>2. /\ DOMAIN k = 1..(Len(l) + 1)
      /\ \A i \in 1..Len(l) : k[i] = l[i]
      /\ k[Len(l) + 1] = e
  BY <1>1, AppendFacts
<1>3. SUFFICES ASSUME NEW i \in 1..(Len(l) + 1)
               PROVE  /\ Admissible(Prefix(k, i - 1), k[i].body)
                      /\ i > 1 => Follows(k[i].at, k[i - 1].at)
  BY <1>2, Zenon DEF Legal
<1>4. i - 1 \in 0..Len(l) /\ Prefix(k, i - 1) = Prefix(l, i - 1)
  BY <1>1, PrefixOfAppend
<1>5. CASE i \in 1..Len(l)
  <2>1. /\ Admissible(Prefix(l, i - 1), l[i].body)
        /\ i > 1 => Follows(l[i].at, l[i - 1].at)
    BY <1>5 DEF Legal
  <2>2. k[i] = l[i] /\ (i > 1 => k[i - 1] = l[i - 1])
    BY <1>2, <1>5
  <2>. QED
    BY <1>4, <2>1, <2>2
<1>6. CASE i = Len(l) + 1
  <2>1. Prefix(k, i - 1) = l
    <3>1. Prefix(l, Len(l)) = l
      BY SubSeqFull DEF Prefix
    <3>. QED
      BY <1>4, <1>6, <3>1
  <2>2. Admissible(Prefix(k, i - 1), k[i].body)
    BY <1>1, <1>2, <1>6, <2>1
  <2>3. ASSUME i > 1
        PROVE  Follows(k[i].at, k[i - 1].at)
    <3>1. l # <<>> /\ Len(l) \in 1..Len(l) /\ k[i - 1] = l[Len(l)]
      BY <1>2, <1>6, <2>3
    <3>2. l[Len(l)].at \in 0..MaxTime
      <4>1. l[Len(l)] \in Event
        BY <3>1
      <4>. QED
        BY <4>1, Zenon DEF Event
    <3>3. Follows(StampMonotonic(now, l), l[Len(l)].at)
      BY <3>1, <3>2, ClockAssumption DEF StampMonotonic, Follows
    <3>. QED
      BY <1>1, <1>2, <1>6, <3>1, <3>3
  <2>. QED
    BY <2>2, <2>3
<1>. QED
  BY <1>5, <1>6
=============================================================================
