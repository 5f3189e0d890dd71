-------------------------- MODULE MarketData_proofs ------------------------
(***************************************************************************)
(* The market data a run rests on, for any sizes: the manifests it pins    *)
(* (ManifestPins) and the objects that rows name (MarketObjects).          *)
(*                                                                         *)
(* Covers.  A tiling is a path (the longest path begun in it cannot stop   *)
(* short of the end) and a path is a tiling; the ranking is a strict total *)
(* order on the finitely many paths, so one is best, and a newer revision  *)
(* in the place of one of its manifests would rank before it.              *)
(*                                                                         *)
(* Pins.  What a request saw and nobody retired since is what the oracle   *)
(* finds, unless something became visible late.  Of fewer candidates that  *)
(* keep the best path the cover is the same, and a cover names candidates  *)
(* only, so it can never be one with a retired manifest (PinsInv).         *)
(*                                                                         *)
(* Objects.  The store only grows, so a version once named stays; what has *)
(* to be shown is that a row is only ever given the place of a version     *)
(* that is there, although the scripts found or put it some steps before   *)
(* they commit (StoreInv, and RowsInv where no sealed copy is in another   *)
(* bucket).  The prune is exact where nothing overlaps, because the rows   *)
(* it read are still the rows when it deletes (PruneIsRight).              *)
(***************************************************************************)
EXTENDS ManifestPins, MarketObjects, FiniteSetTheorems, SequenceTheorems,
        WellFoundedInduction, TLAPS

-----------------------------------------------------------------------------
(* Orders on finite sets *)

\* A set of numbers that is not empty has a least.
LEMMA LeastOf ==
    ASSUME NEW S, S \subseteq Nat, S # {}
    PROVE  \E k \in S : \A j \in S : k <= j
<1>1. PICK k \in S : \A j \in S : <<j, k>> \notin OpToRel(<, Nat)
  BY NatLessThanWellFounded, WFMin
<1>2. ASSUME NEW j \in S
      PROVE  k <= j
  <2>1. j \in Nat /\ k \in Nat
    OBVIOUS
  <2>2. ~(j < k)
    BY <1>1, <2>1 DEF OpToRel
  <2>3. QED
    BY <2>1, <2>2
<1>3. QED
  BY <1>2

\* A finite set has an element with nothing before it: one with the fewest
\* before it.
LEMMA FirstOf ==
    ASSUME NEW S, IsFiniteSet(S), S # {}, NEW R,
           \A x \in S : <<x, x>> \notin R,
           \A x, y, z \in S : <<x, y>> \in R /\ <<y, z>> \in R => <<x, z>> \in R
    PROVE  \E x \in S : \A y \in S : <<y, x>> \notin R
<1> DEFINE Before(x) == {y \in S : <<y, x>> \in R}
           K == {k \in Nat : \E x \in S : Cardinality(Before(x)) = k}
<1>1. ASSUME NEW x \in S
      PROVE  IsFiniteSet(Before(x)) /\ Cardinality(Before(x)) \in Nat
  BY FS_Subset, FS_CardinalityType
<1>2. PICK k \in K : \A j \in K : k <= j
  <2>1. PICK x \in S : TRUE
    OBVIOUS
  <2>2. Cardinality(Before(x)) \in K
    BY <1>1
  <2>3. K \subseteq Nat
    OBVIOUS
  <2> HIDE DEF K
  <2>4. QED
    BY <2>2, <2>3, LeastOf
<1>3. PICK x \in S : Cardinality(Before(x)) = k
  OBVIOUS
<1>4. SUFFICES ASSUME NEW y \in S, <<y, x>> \in R PROVE FALSE
  OBVIOUS
<1>5. Before(y) \subseteq Before(x) /\ y \in Before(x) /\ y \notin Before(y)
  BY <1>4
<1>6. Cardinality(Before(y)) \in K
  BY <1>1
<1>7. k <= Cardinality(Before(y))
  <2> HIDE DEF K
  <2>1. QED
    BY <1>2, <1>6
<1> HIDE DEF Before, K
<1>8. Cardinality(Before(y)) <= Cardinality(Before(x)) /\ Before(y) # Before(x)
  BY <1>1, <1>5, FS_Subset
<1>9. Cardinality(Before(y)) = Cardinality(Before(x))
  BY <1>1, <1>3, <1>7, <1>8
<1>10. QED
  BY <1>1, <1>5, <1>8, <1>9, FS_Subset

\* A finite set of numbers that is not empty has a greatest.
LEMMA GreatestOf ==
    ASSUME NEW S, IsFiniteSet(S), S \subseteq Nat, S # {}
    PROVE  \E k \in S : \A j \in S : j <= k
<1> DEFINE R == {p \in S \X S : p[1] > p[2]}
<1>1. \A x \in S : <<x, x>> \notin R
  OBVIOUS
<1>2. \A x, y, z \in S : <<x, y>> \in R /\ <<y, z>> \in R => <<x, z>> \in R
  <2>1. ASSUME NEW x \in S, NEW y \in S, NEW z \in S, x > y, y > z
        PROVE  x > z
    <3>1. x \in Nat /\ y \in Nat /\ z \in Nat
      OBVIOUS
    <3>2. QED
      BY <2>1, <3>1
  <2>2. QED
    BY <2>1
<1>3. PICK k \in S : \A j \in S : <<j, k>> \notin R
  <2> HIDE DEF R
  <2>1. QED
    BY <1>1, <1>2, FirstOf
<1>4. ASSUME NEW j \in S
      PROVE  j <= k
  <2>1. ~(j > k)
    BY <1>3
  <2>2. j \in Nat /\ k \in Nat
    OBVIOUS
  <2>3. QED
    BY <2>1, <2>2
<1>5. QED
  BY <1>4

-----------------------------------------------------------------------------
(* Paths *)

\* What the catalog of an instrument and resolution is.
Catalog(C) ==
    /\ IsFiniteSet(C) /\ C \subseteq Manifest
    /\ \A m \in C : m.from < m.to
    /\ \A m, n \in C : m.id = n.id => m = n

\* The types of what a manifest says.
LEMMA ManifestTypes ==
    ASSUME NEW C, Catalog(C), NEW m \in C
    PROVE  /\ m.from \in Nat /\ m.to \in Nat /\ m.from <= Days /\ m.to <= Days /\ m.from < m.to
           /\ m.revision \in Nat /\ m.at \in Nat /\ m.id \in Nat /\ m.id \in Ids
<1>1. m \in Manifest /\ m.from < m.to
  BY DEF Catalog
<1>2. /\ m.from \in 0..Days /\ m.to \in 0..Days /\ m.revision \in Nat \ {0}
      /\ m.at \in Nat /\ m.id \in Ids
  BY <1>1 DEF Manifest
<1>3. Days \in Nat /\ \A id \in Ids : id \in Nat
  BY PinsAssumption
<1>4. QED
  BY <1>1, <1>2, <1>3

\* A path is a sequence of candidates, no longer than the period has days.
LEMMA PathsAre ==
    ASSUME NEW C, NEW start \in Nat, NEW end \in Nat, NEW path \in Paths(C, start, end)
    PROVE  /\ Len(path) \in Nat /\ 1 <= Len(path) /\ Len(path) <= end - start
           /\ DOMAIN path = 1..Len(path) /\ path \in [1..Len(path) -> C]
           /\ \A i \in 1..Len(path) : path[i] \in C
           /\ IsPath(path, start, end)
<1>1. PICK n \in 1..(end - start) : path \in [1..n -> C]
  BY DEF Paths
<1>2. path \in Seq(C) /\ n \in Nat
  BY <1>1, SeqDef
<1>3. Len(path) \in Nat /\ DOMAIN path = 1..Len(path)
  BY <1>2, LenProperties
<1>4. Len(path) = n
  BY <1>1, <1>2, <1>3
<1>5. IsPath(path, start, end)
  BY DEF Paths
<1>6. QED
  BY <1>1, <1>3, <1>4, <1>5

\* A sequence of candidates that is short enough and goes on is a path.
LEMMA ArePaths ==
    ASSUME NEW C, NEW start \in Nat, NEW end \in Nat, NEW n \in 1..(end - start),
           NEW path \in [1..n -> C]
    PROVE  /\ Len(path) = n
           /\ IsPath(path, start, end) => path \in Paths(C, start, end)
<1>1. path \in Seq(C) /\ n \in Nat
  BY SeqDef
<1>2. Len(path) \in Nat /\ DOMAIN path = 1..Len(path)
  BY <1>1, LenProperties
<1>3. Len(path) = n
  BY <1>1, <1>2
<1>4. QED
  BY <1>3 DEF Paths

\* Along a path each manifest begins where those before it have ended.
LEMMA PathsGoOn ==
    ASSUME NEW C, Catalog(C), NEW start \in Nat, NEW end \in Nat, NEW path \in Paths(C, start, end),
           NEW i \in 1..Len(path), NEW j \in 1..Len(path), i < j
    PROVE  path[i].to <= path[j].from
<1> DEFINE n == Len(path)
           Bad == {k \in 1..n : i < k /\ ~(path[i].to <= path[k].from)}
<1>1. /\ n \in Nat /\ \A k \in 1..n : path[k] \in C
      /\ \A k \in 1..(n - 1) : path[k + 1].from = path[k].to
  <2>1. n \in Nat /\ (\A k \in 1..n : path[k] \in C) /\ IsPath(path, start, end)
    BY PathsAre
  <2>2. QED
    BY <2>1 DEF IsPath
<1>2. \A k \in 1..n : path[k].from \in Nat /\ path[k].to \in Nat /\ path[k].from < path[k].to
  BY <1>1, ManifestTypes
<1>3. SUFFICES ASSUME Bad # {} PROVE FALSE
  OBVIOUS
<1>4. PICK k \in Bad : \A l \in Bad : k <= l
  <2>1. Bad \subseteq Nat
    BY <1>1
  <2> HIDE DEF Bad
  <2>2. QED
    BY <1>3, <2>1, LeastOf
<1> HIDE DEF n
<1>5. k \in 1..n /\ i < k /\ ~(path[i].to <= path[k].from) /\ i \in 1..n
  BY DEF n
<1>6. k - 1 \in 1..(n - 1) /\ k - 1 \in 1..n /\ k - 1 + 1 = k
  BY <1>1, <1>5
<1>7. path[k].from = path[k - 1].to
  BY <1>1, <1>6
<1>8. CASE k - 1 = i
  BY <1>2, <1>5, <1>7, <1>8
<1>9. CASE k - 1 # i
  <2>1. k - 1 \notin Bad
    <3>1. ~(k <= k - 1)
      BY <1>5
    <3> HIDE DEF Bad
    <3>2. QED
      BY <1>4, <3>1
  <2>2. i < k - 1
    BY <1>1, <1>5, <1>9
  <2>3. path[i].to <= path[k - 1].from
    BY <1>6, <2>1, <2>2
  <2> HIDE DEF Bad
  <2>4. QED
    BY <1>2, <1>5, <1>6, <1>7, <2>3
<1>10. QED
  BY <1>8, <1>9

\* Along a path both ends of the manifests grow, and none comes twice.
LEMMA PathsAreOrdered ==
    ASSUME NEW C, Catalog(C), NEW start \in Nat, NEW end \in Nat, NEW path \in Paths(C, start, end),
           NEW i \in 1..Len(path), NEW j \in 1..Len(path)
    PROVE  /\ i < j => path[i].from < path[j].from /\ path[i].to < path[j].to
           /\ path[i] = path[j] => i = j
<1>1. \A k \in 1..Len(path) : path[k] \in C
  BY PathsAre
<1>2. /\ path[i].from \in Nat /\ path[i].to \in Nat /\ path[i].from < path[i].to
      /\ path[j].from \in Nat /\ path[j].to \in Nat /\ path[j].from < path[j].to
  BY <1>1, ManifestTypes
<1>3. Len(path) \in Nat /\ i \in Nat /\ j \in Nat
  BY PathsAre
<1>4. /\ i < j => path[i].to <= path[j].from
      /\ j < i => path[j].to <= path[i].from
  BY PathsGoOn
<1>5. QED
  BY <1>2, <1>3, <1>4

\* The manifests of a path all meet the period.
LEMMA PathsMeetPeriod ==
    ASSUME NEW C, Catalog(C), NEW start \in Nat, NEW end \in Nat, start < end,
           NEW path \in Paths(C, start, end), NEW i \in 1..Len(path)
    PROVE  path[i].from < end /\ path[i].to > start
<1> DEFINE n == Len(path)
<1>1. n \in Nat /\ 1 <= n /\ IsPath(path, start, end) /\ \A k \in 1..n : path[k] \in C
  BY PathsAre
<1>2. \A k \in 1..n : path[k].from \in Nat /\ path[k].to \in Nat
  BY <1>1, ManifestTypes
<1>3. path[i].to > start
  <2>1. path[1].to > start /\ 1 \in 1..n
    BY <1>1 DEF IsPath
  <2>2. i = 1 \/ path[1].to < path[i].to
    BY <1>1, <2>1, PathsAreOrdered
  <2> HIDE DEF n
  <2>3. i \in 1..n
    BY DEF n
  <2>4. QED
    BY <1>2, <2>1, <2>2, <2>3
<1>4. path[i].from < end
  <2>1. CASE i = 1
    <3>1. path[1].from <= start
      BY <1>1 DEF IsPath
    <3>2. QED
      BY <1>1, <1>2, <2>1, <3>1
  <2>2. CASE i # 1
    <3>1. i - 1 \in 1..(n - 1) /\ i - 1 + 1 = i
      BY <1>1, <2>2
    <3>2. \A k \in 1..(n - 1) : path[k].to < end /\ path[k + 1].from = path[k].to
      BY <1>1 DEF IsPath
    <3>3. QED
      BY <3>1, <3>2
  <2>3. QED
    BY <2>1, <2>2
<1>5. QED
  BY <1>3, <1>4

On(path) == {path[i] : i \in 1..Len(path)}

\* A path has as many manifests as it is long.
LEMMA PathsCount ==
    ASSUME NEW C, Catalog(C), NEW start \in Nat, NEW end \in Nat, NEW path \in Paths(C, start, end)
    PROVE  On(path) \subseteq C /\ IsFiniteSet(On(path)) /\ Cardinality(On(path)) = Len(path)
<1> DEFINE n == Len(path)
<1>1. n \in Nat /\ \A k \in 1..n : path[k] \in C
  BY PathsAre
<1>2. \A i, j \in 1..n : path[i] = path[j] => i = j
  BY PathsAreOrdered
<1>3. IsFiniteSet(1..n) /\ Cardinality(1..n) = n
  <2> HIDE DEF n
  <2>1. n \in Int /\ 1 \in Int
    BY <1>1
  <2>2. QED
    BY <1>1, <2>1, FS_Interval
<1> DEFINE f == [i \in 1..n |-> path[i]]
<1>4. f \in Bijection(1..n, On(path))
  <2>1. f \in [1..n -> On(path)]
    BY DEF On
  <2>2. f \in Injection(1..n, On(path))
    BY <1>2, <2>1 DEF Injection, IsInjective
  <2>3. f \in Surjection(1..n, On(path))
    BY <2>1 DEF Surjection, On
  <2>4. QED
    BY <2>2, <2>3 DEF Bijection
<1>5. ExistsBijection(1..n, On(path))
  BY <1>4 DEF ExistsBijection
<1> HIDE DEF n
<1>6. IsFiniteSet(On(path)) /\ Cardinality(On(path)) = n
  BY <1>3, <1>5, FS_Bijection
<1>7. QED
  BY <1>1, <1>6 DEF On, n

\* Every day of the period is in exactly one manifest of a path.
LEMMA PathsTile ==
    ASSUME NEW C, Catalog(C), NEW start \in Nat, NEW end \in Nat, start < end,
           NEW path \in Paths(C, start, end)
    PROVE  Tiles(On(path), start, end)
<1> DEFINE n == Len(path)
<1>1. /\ n \in Nat /\ 1 <= n /\ IsPath(path, start, end) /\ \A k \in 1..n : path[k] \in C
  BY PathsAre
<1>2. \A k \in 1..n : path[k].from \in Nat /\ path[k].to \in Nat
  BY <1>1, ManifestTypes
<1>3. ASSUME NEW day \in start..(end - 1)
      PROVE  Cardinality({m \in On(path) : m.from <= day /\ day < m.to}) = 1
  <2> DEFINE Later == {k \in 1..n : day < path[k].to}
  <2>1. n \in Later /\ Later \subseteq Nat
    <3>1. n \in 1..n /\ path[n].to >= end
      BY <1>1 DEF IsPath
    <3>2. QED
      BY <1>1, <1>2, <3>1
  <2>2. PICK i \in Later : \A k \in Later : i <= k
    <3> HIDE DEF Later
    <3>1. QED
      BY <2>1, LeastOf
  <2>3. i \in 1..n /\ day < path[i].to
    OBVIOUS
  <2>4. path[i].from <= day
    <3>1. CASE i = 1
      <4>1. path[1].from <= start
        BY <1>1 DEF IsPath
      <4>2. QED
        BY <1>2, <2>3, <3>1, <4>1
    <3>2. CASE i # 1
      <4>1. i - 1 \in 1..(n - 1) /\ i - 1 \in 1..n /\ i - 1 + 1 = i /\ ~(i <= i - 1)
        BY <1>1, <2>3, <3>2
      <4>2. i - 1 \notin Later
        <5> HIDE DEF Later
        <5>1. QED
          BY <2>2, <4>1
      <4>3. path[i - 1].to <= day
        BY <1>2, <4>1, <4>2
      <4>4. \A k \in 1..(n - 1) : path[k + 1].from = path[k].to
        BY <1>1 DEF IsPath
      <4> HIDE DEF Later
      <4>5. path[i].from = path[i - 1].to
        BY <4>1, <4>4
      <4>6. QED
        BY <4>3, <4>5
    <3>3. QED
      BY <3>1, <3>2
  <2>5. ASSUME NEW k \in 1..n, path[k].from <= day, day < path[k].to
        PROVE  k = i
    <3>1. /\ k < i => path[k].to <= path[i].from
          /\ i < k => path[i].to <= path[k].from
      BY <2>3, PathsGoOn
    <3> HIDE DEF Later
    <3>2. QED
      BY <1>1, <1>2, <2>3, <2>4, <2>5, <3>1
  <2>6. {m \in On(path) : m.from <= day /\ day < m.to} = {path[i]}
    <3> HIDE DEF Later
    <3>1. QED
      BY <2>3, <2>4, <2>5 DEF On
  <2>7. QED
    BY <2>6, FS_Singleton
<1>4. \A m \in On(path) : m.from < end /\ m.to > start
  BY PathsMeetPeriod DEF On
<1>5. QED
  BY <1>3, <1>4 DEF Tiles

-----------------------------------------------------------------------------
(* Tilings *)

\* Two manifests of a tiling do not meet.
LEMMA TilesApart ==
    ASSUME NEW C, Catalog(C), NEW start \in Nat, NEW end \in Nat, start < end,
           NEW T, T \subseteq C, Tiles(T, start, end),
           NEW m \in T, NEW k \in T, m.from <= k.from, k.from < m.to
    PROVE  m = k
<1>1. /\ m.from \in Nat /\ m.to \in Nat /\ m.from < m.to
      /\ k.from \in Nat /\ k.to \in Nat /\ k.from < k.to
  BY ManifestTypes
<1>2. m.from < end /\ m.to > start /\ k.from < end /\ k.to > start
  BY DEF Tiles
<1>3. PICK day \in start..(end - 1) :
          m.from <= day /\ day < m.to /\ k.from <= day /\ day < k.to
  <2>1. CASE k.from <= start
    <3>1. start \in start..(end - 1) /\ m.from <= start
      BY <1>1, <2>1
    <3>2. QED
      BY <1>2, <2>1, <3>1
  <2>2. CASE ~(k.from <= start)
    <3>1. k.from \in start..(end - 1)
      BY <1>1, <1>2, <2>2
    <3>2. QED
      BY <1>1, <3>1
  <2>3. QED
    BY <2>1, <2>2
<1> DEFINE S == {l \in T : l.from <= day /\ day < l.to}
<1>4. Cardinality(S) = 1 /\ m \in S /\ k \in S
  BY <1>3 DEF Tiles
<1>5. IsFiniteSet(S)
  BY FS_Subset DEF Catalog
<1> HIDE DEF S
<1>6. QED
  BY <1>4, <1>5, FS_Singleton

\* A path through the manifests of T that is not complete yet
Begins(T, start, end, n, q) ==
    /\ q \in [1..n -> T]
    /\ q[1].from <= start
    /\ \A i \in 1..n : q[i].to >= start + i
    /\ \A i \in 1..(n - 1) : q[i].to < end /\ q[i + 1].from = q[i].to

\* Whatever tiles the period lies on a path.
LEMMA TilingsArePaths ==
    ASSUME NEW C, Catalog(C), NEW start \in Nat, NEW end \in Nat, start < end,
           NEW T, T \subseteq C, Tiles(T, start, end)
    PROVE  \E path \in Paths(C, start, end) : On(path) = T /\ Len(path) = Cardinality(T)
<1> DEFINE K == {n \in 1..(end - start) : \E q : Begins(T, start, end, n, q)}
<1>1. IsFiniteSet(T)
  BY FS_Subset DEF Catalog
<1>2. ASSUME NEW day \in start..(end - 1)
      PROVE  \E m \in T : m.from <= day /\ day < m.to
  <2>1. Cardinality({m \in T : m.from <= day /\ day < m.to}) # 0
    BY DEF Tiles
  <2>2. {m \in T : m.from <= day /\ day < m.to} # {}
    BY <2>1, FS_EmptySet
  <2>3. QED
    BY <2>2
<1>3. \A m \in T : m.from \in Nat /\ m.to \in Nat /\ m.from < m.to
  BY ManifestTypes
<1>4. 1 \in K
  <2>1. start \in start..(end - 1) /\ 1 \in 1..(end - start)
    OBVIOUS
  <2>2. PICK m \in T : m.from <= start /\ start < m.to
    BY <1>2, <2>1
  <2> DEFINE q == [i \in 1..1 |-> m]
  <2>3. q \in [1..1 -> T] /\ q[1] = m
    OBVIOUS
  <2>4. \A i \in 1..1 : i = 1 /\ q[i].to >= start + i
    BY <1>3, <2>2, <2>3
  <2> HIDE DEF q
  <2>5. Begins(T, start, end, 1, q)
    BY <2>2, <2>3, <2>4 DEF Begins
  <2>6. QED
    BY <2>1, <2>5
<1>5. PICK n \in K : \A k \in K : k <= n
  <2>1. IsFiniteSet(1..(end - start))
    BY FS_Interval
  <2>2. K \in SUBSET (1..(end - start)) /\ K \subseteq Nat /\ K # {}
    BY <1>4
  <2> HIDE DEF K
  <2>3. IsFiniteSet(K)
    BY <2>1, <2>2, FS_Subset
  <2>4. QED
    BY <2>2, <2>3, GreatestOf
<1>6. PICK q : Begins(T, start, end, n, q)
  OBVIOUS
<1>7. n \in Nat /\ 1 <= n /\ n <= end - start
  OBVIOUS
<1> HIDE DEF K
<1>8. /\ q \in [1..n -> T] /\ q[1].from <= start
      /\ \A i \in 1..n : q[i] \in T /\ q[i].from \in Nat /\ q[i].to \in Nat /\ q[i].from < q[i].to
      /\ \A i \in 1..n : q[i].to >= start + i
      /\ \A i \in 1..(n - 1) : q[i].to < end /\ q[i + 1].from = q[i].to
  BY <1>3, <1>6 DEF Begins
<1>9. q[n].to >= end
  <2>1. SUFFICES ASSUME q[n].to < end PROVE FALSE
    BY <1>7, <1>8
  <2>2. n \in 1..n /\ q[n] \in T /\ q[n].to >= start + n /\ q[n].to \in Nat
    BY <1>7, <1>8
  <2>3. q[n].to \in start..(end - 1) /\ n + 1 \in 1..(end - start)
    BY <1>7, <2>1, <2>2
  <2>4. PICK m \in T : m.from <= q[n].to /\ q[n].to < m.to
    BY <1>2, <2>3
  <2>5. m.from \in Nat /\ m.to \in Nat /\ q[n].from \in Nat /\ q[n].from < q[n].to
    BY <1>3, <2>2
  <2>6. m.from = q[n].to
    <3>1. SUFFICES ASSUME m.from < q[n].to PROVE FALSE
      BY <2>2, <2>4, <2>5
    <3>2. m = q[n]
      BY <2>2, <2>4, <2>5, <3>1, TilesApart
    <3>3. QED
      BY <2>2, <2>4, <3>2
  <2>r. PICK r : r = [i \in 1..(n + 1) |-> IF i = n + 1 THEN m ELSE q[i]]
    OBVIOUS
  <2>7. r[n + 1] = m /\ \A i \in 1..n : i # n + 1 /\ i \in 1..(n + 1) /\ r[i] = q[i]
    BY <1>7, <2>r
  <2>8. r \in [1..(n + 1) -> T]
    <3>1. \A i \in 1..(n + 1) : i # n + 1 => i \in 1..n
      BY <1>7
    <3>2. \A i \in 1..(n + 1) : (IF i = n + 1 THEN m ELSE q[i]) \in T
      BY <1>8, <2>4, <3>1
    <3>3. QED
      BY <2>r, <3>2
  <2>9. r[1].from <= start
    BY <1>7, <1>8, <2>7
  <2>10. ASSUME NEW i \in 1..(n + 1)
         PROVE  r[i].to >= start + i
    <3>1. CASE i = n + 1
      BY <1>7, <2>2, <2>4, <2>5, <2>7, <3>1
    <3>2. CASE i # n + 1
      <4>1. i \in 1..n
        BY <1>7, <3>2
      <4>2. QED
        BY <1>8, <2>7, <4>1
    <3>3. QED
      BY <3>1, <3>2
  <2>11. ASSUME NEW i \in 1..((n + 1) - 1)
         PROVE  r[i].to < end /\ r[i + 1].from = r[i].to
    <3>1. CASE i = n
      BY <1>7, <2>1, <2>2, <2>6, <2>7, <3>1
    <3>2. CASE i # n
      <4>1. i \in 1..(n - 1) /\ i \in 1..n /\ i + 1 \in 1..n
        BY <1>7, <3>2
      <4>2. r[i] = q[i] /\ r[i + 1] = q[i + 1]
        BY <2>7, <4>1
      <4>3. QED
        BY <1>8, <4>1, <4>2
    <3>3. QED
      BY <3>1, <3>2
  <2>12. Begins(T, start, end, n + 1, r)
    <3>1. \A i \in 1..(n + 1) : r[i].to >= start + i
      BY <2>10
    <3>2. \A i \in 1..((n + 1) - 1) : r[i].to < end /\ r[i + 1].from = r[i].to
      BY <2>11
    <3>3. QED
      BY <2>8, <2>9, <3>1, <3>2 DEF Begins
  <2>13. n + 1 \in K
    BY <2>3, <2>12 DEF K
  <2>14. QED
    BY <1>5, <1>7, <2>13
<1>10. Len(q) = n /\ q \in Paths(C, start, end)
  <2>1. q \in [1..n -> C] /\ n \in 1..(end - start)
    BY <1>7, <1>8
  <2>2. Len(q) = n
    BY <2>1, ArePaths
  <2>3. q[1].to > start
    BY <1>7, <1>8
  <2>4. \A i \in 1..(n - 1) : q[i].to < end /\ q[i + 1].from = q[i].to /\ q[i + 1].to > q[i].to
    <3>1. ASSUME NEW i \in 1..(n - 1)
          PROVE  q[i].to < end /\ q[i + 1].from = q[i].to /\ q[i + 1].to > q[i].to
      <4>1. i + 1 \in 1..n /\ i \in 1..n
        BY <1>7
      <4>2. QED
        BY <1>8, <4>1
    <3>2. QED
      BY <3>1
  <2>5. IsPath(q, start, end)
    BY <1>8, <1>9, <2>2, <2>3, <2>4 DEF IsPath
  <2>6. QED
    BY <2>1, <2>2, <2>5, ArePaths
<1>11. On(q) \subseteq T
  BY <1>8, <1>10 DEF On
<1>12. T \subseteq On(q)
  <2>1. SUFFICES ASSUME NEW m \in T PROVE m \in On(q)
    OBVIOUS
  <2>2. m.from \in Nat /\ m.to \in Nat /\ m.from < m.to /\ m.from < end /\ m.to > start
    BY <1>3 DEF Tiles
  <2>3. PICK day \in start..(end - 1) : m.from <= day /\ day < m.to
    <3>1. CASE m.from <= start
      BY <2>2, <3>1
    <3>2. CASE ~(m.from <= start)
      <4>1. m.from \in start..(end - 1)
        BY <2>2, <3>2
      <4>2. QED
        BY <2>2, <4>1
    <3>3. QED
      BY <3>1, <3>2
  <2>4. Tiles(On(q), start, end)
    BY <1>10, PathsTile
  <2>5. Cardinality({k \in On(q) : k.from <= day /\ day < k.to}) # 0
    BY <2>4 DEF Tiles
  <2>6. {k \in On(q) : k.from <= day /\ day < k.to} # {}
    BY <2>5, FS_EmptySet
  <2>7. PICK k \in On(q) : k.from <= day /\ day < k.to
    BY <2>6
  <2>8. k \in T /\ k.from \in Nat /\ k.to \in Nat /\ k.from < k.to
    BY <1>3, <1>11
  <2>9. m = k
    <3>1. day \in Nat
      OBVIOUS
    <3>2. (m.from <= k.from /\ k.from < m.to) \/ (k.from <= m.from /\ m.from < k.to)
      BY <2>2, <2>3, <2>7, <2>8, <3>1
    <3>3. QED
      BY <2>8, <3>2, TilesApart
  <2>10. QED
    BY <2>9
<1>13. On(q) = T
  BY <1>11, <1>12
<1>14. QED
  BY <1>10, <1>13, PathsCount

-----------------------------------------------------------------------------
(* Vectors of numbers, compared from their greatest down *)

IsVector(f) == \E n \in Nat : f \in [1..n -> Nat]

\* How often a value occurs is a number, and 0 where it does not.
LEMMA TimesAreNat ==
    ASSUME NEW f, IsVector(f), NEW v
    PROVE  /\ IsFiniteSet({i \in DOMAIN f : f[i] = v}) /\ Times(f, v) \in Nat
           /\ (\A i \in DOMAIN f : f[i] # v) => Times(f, v) = 0
<1>1. PICK n \in Nat : f \in [1..n -> Nat]
  BY DEF IsVector
<1>2. IsFiniteSet(1..n)
  BY FS_Interval
<1> DEFINE S == {i \in DOMAIN f : f[i] = v}
<1>3. S \in SUBSET (1..n) /\ ((\A i \in DOMAIN f : f[i] # v) => S = {})
  BY <1>1
<1>4. Times(f, v) = Cardinality(S)
  BY DEF Times
<1> HIDE DEF S
<1>5. IsFiniteSet(S) /\ Cardinality(S) \in Nat
  BY <1>2, <1>3, FS_Subset, FS_CardinalityType
<1>6. QED
  BY <1>3, <1>4, <1>5, FS_EmptySet DEF S

\* A vector has finitely many values, all numbers.
LEMMA ValuesAreFinite ==
    ASSUME NEW f, IsVector(f)
    PROVE  IsFiniteSet({f[i] : i \in DOMAIN f}) /\ {f[i] : i \in DOMAIN f} \subseteq Nat
<1>1. PICK n \in Nat : f \in [1..n -> Nat]
  BY DEF IsVector
<1>2. IsFiniteSet(1..n)
  BY FS_Interval
<1> DEFINE V == {f[i] : i \in DOMAIN f}
<1>3. f \in Surjection(1..n, V) /\ V \subseteq Nat
  BY <1>1 DEF Surjection
<1> HIDE DEF V
<1>4. IsFiniteSet(V)
  BY <1>2, <1>3, FS_Surjection
<1>5. QED
  BY <1>3, <1>4 DEF V

\* Greater and Same, with the values no vector has
LEMMA OverAllValues ==
    ASSUME NEW f, IsVector(f), NEW g, IsVector(g)
    PROVE  /\ Greater(f, g) <=>
                \E v \in Nat : /\ Times(f, v) > Times(g, v)
                               /\ \A w \in Nat : w > v => Times(f, w) = Times(g, w)
           /\ Same(f, g) <=> \A v \in Nat : Times(f, v) = Times(g, v)
<1>1. ValuesOf(f, g) \subseteq Nat
  BY ValuesAreFinite DEF ValuesOf
<1>2. \A v \in Nat \ ValuesOf(f, g) : Times(f, v) = 0 /\ Times(g, v) = 0
  BY TimesAreNat DEF ValuesOf
<1>3. \A v \in Nat : v \notin ValuesOf(f, g) => ~(Times(f, v) > Times(g, v))
  BY <1>2
<1>4. \A v \in Nat : v \notin ValuesOf(f, g) => Times(f, v) = Times(g, v)
  BY <1>2
<1>5. ASSUME Greater(f, g)
      PROVE  \E v \in Nat : /\ Times(f, v) > Times(g, v)
                            /\ \A w \in Nat : w > v => Times(f, w) = Times(g, w)
  BY <1>1, <1>4, <1>5 DEF Greater
<1>6. ASSUME NEW v \in Nat, Times(f, v) > Times(g, v),
             \A w \in Nat : w > v => Times(f, w) = Times(g, w)
      PROVE  Greater(f, g)
  BY <1>1, <1>3, <1>6 DEF Greater
<1>7. Same(f, g) <=> \A v \in Nat : Times(f, v) = Times(g, v)
  BY <1>1, <1>4 DEF Same
<1>8. QED
  BY <1>5, <1>6, <1>7

\* No vector is greater than itself; of two, one is greater or they are the same.
LEMMA GreaterIsAnOrder ==
    ASSUME NEW f, IsVector(f), NEW g, IsVector(g)
    PROVE  /\ ~Greater(f, f) /\ Same(f, f)
           /\ Same(f, g) => Same(g, f)
           /\ Greater(f, g) \/ Greater(g, f) \/ Same(f, g)
<1>1. \A v : Times(f, v) \in Nat /\ Times(g, v) \in Nat
  BY TimesAreNat
<1>2. ~Greater(f, f) /\ Same(f, f)
  BY <1>1 DEF Greater, Same
<1>3. Same(f, g) => Same(g, f)
  BY OverAllValues
<1>4. ASSUME ~Same(f, g)
      PROVE  Greater(f, g) \/ Greater(g, f)
  <2> DEFINE D == {v \in ValuesOf(f, g) : Times(f, v) # Times(g, v)}
  <2>1. IsFiniteSet(ValuesOf(f, g)) /\ ValuesOf(f, g) \subseteq Nat
    BY ValuesAreFinite, FS_Union DEF ValuesOf
  <2>2. D \in SUBSET ValuesOf(f, g) /\ D \subseteq Nat /\ D # {}
    BY <1>4, <2>1 DEF Same
  <2>3. PICK v \in D : \A w \in D : w <= v
    <3> HIDE DEF D
    <3>1. IsFiniteSet(D)
      BY <2>1, <2>2, FS_Subset
    <3>2. QED
      BY <2>2, <3>1, GreatestOf
  <2>4. v \in ValuesOf(f, g) /\ v \in Nat /\ Times(f, v) # Times(g, v)
    BY <2>1
  <2>5. ASSUME NEW w \in ValuesOf(f, g), w > v
        PROVE  Times(f, w) = Times(g, w)
    <3>1. w \in Nat
      BY <2>1
    <3>2. ~(w <= v)
      BY <2>4, <2>5, <3>1
    <3>3. QED
      BY <2>3, <3>2
  <2>6. Times(f, v) > Times(g, v) \/ Times(g, v) > Times(f, v)
    BY <1>1, <2>4
  <2>7. ValuesOf(g, f) = ValuesOf(f, g)
    BY DEF ValuesOf
  <2> HIDE DEF D
  <2>8. QED
    BY <2>4, <2>5, <2>6, <2>7 DEF Greater
<1>5. QED
  BY <1>2, <1>3, <1>4

\* Greater is transitive, and vectors that are the same compare alike.
LEMMA GreaterIsTransitive ==
    ASSUME NEW f, IsVector(f), NEW g, IsVector(g), NEW h, IsVector(h)
    PROVE  /\ Greater(f, g) /\ Greater(g, h) => Greater(f, h)
           /\ Greater(f, g) /\ Same(g, h) => Greater(f, h)
           /\ Same(f, g) /\ Greater(g, h) => Greater(f, h)
           /\ Same(f, g) /\ Same(g, h) => Same(f, h)
<1>1. \A v \in Nat : Times(f, v) \in Nat /\ Times(g, v) \in Nat /\ Times(h, v) \in Nat
  BY TimesAreNat
<1>2. ASSUME Greater(f, g), Greater(g, h)
      PROVE  Greater(f, h)
  <2>1. PICK v \in Nat : /\ Times(f, v) > Times(g, v)
                         /\ \A w \in Nat : w > v => Times(f, w) = Times(g, w)
    BY <1>2, OverAllValues
  <2>2. PICK u \in Nat : /\ Times(g, u) > Times(h, u)
                         /\ \A w \in Nat : w > u => Times(g, w) = Times(h, w)
    BY <1>2, OverAllValues
  <2>3. PICK t \in Nat : t >= u /\ t >= v /\ (t = u \/ t = v)
    <3>1. u >= v \/ v >= u
      OBVIOUS
    <3>2. QED
      BY <3>1
  <2>4. \A w \in Nat : w > t => Times(f, w) = Times(h, w)
    <3>1. \A w \in Nat : w > t => w > u /\ w > v
      BY <2>3
    <3>2. QED
      BY <2>1, <2>2, <3>1
  <2>5. Times(f, t) > Times(h, t)
    <3>1. CASE u = v
      BY <1>1, <2>1, <2>2, <2>3, <3>1
    <3>2. CASE u > v
      <4>1. t = u /\ Times(f, u) = Times(g, u)
        BY <2>1, <2>3, <3>2
      <4>2. QED
        BY <1>1, <2>2, <4>1
    <3>3. CASE v > u
      <4>1. t = v /\ Times(g, v) = Times(h, v)
        BY <2>2, <2>3, <3>3
      <4>2. QED
        BY <1>1, <2>1, <4>1
    <3>4. QED
      BY <3>1, <3>2, <3>3
  <2>6. QED
    BY <2>4, <2>5, OverAllValues
<1>3. ASSUME Greater(f, g), Same(g, h)
      PROVE  Greater(f, h)
  <2>1. PICK v \in Nat : /\ Times(f, v) > Times(g, v)
                         /\ \A w \in Nat : w > v => Times(f, w) = Times(g, w)
    BY <1>3, OverAllValues
  <2>2. \A w \in Nat : Times(g, w) = Times(h, w)
    BY <1>3, OverAllValues
  <2>3. QED
    BY <2>1, <2>2, OverAllValues
<1>4. ASSUME Same(f, g), Greater(g, h)
      PROVE  Greater(f, h)
  <2>1. PICK v \in Nat : /\ Times(g, v) > Times(h, v)
                         /\ \A w \in Nat : w > v => Times(g, w) = Times(h, w)
    BY <1>4, OverAllValues
  <2>2. \A w \in Nat : Times(f, w) = Times(g, w)
    BY <1>4, OverAllValues
  <2>3. QED
    BY <2>1, <2>2, OverAllValues
<1>5. ASSUME Same(f, g), Same(g, h)
      PROVE  Same(f, h)
  <2>1. \A w \in Nat : Times(f, w) = Times(g, w) /\ Times(g, w) = Times(h, w)
    BY <1>5, OverAllValues
  <2>2. QED
    BY <2>1, OverAllValues
<1>6. QED
  BY <1>2, <1>3, <1>4, <1>5

-----------------------------------------------------------------------------
(* The ranking of the paths of a period *)

\* What the ranking compares has the types it needs.
LEMMA PathsRank ==
    ASSUME NEW C, Catalog(C), NEW start \in Nat, NEW end \in Nat, NEW p \in Paths(C, start, end)
    PROVE  /\ IsVector(Revisions(p)) /\ IsVector(Availability(p)) /\ Outside(p) \in Int
           /\ \A i \in 1..Len(p) : p[i].id \in Nat
<1>1. /\ Len(p) \in Nat /\ 1 <= Len(p) /\ DOMAIN p = 1..Len(p)
      /\ \A i \in 1..Len(p) : p[i] \in C
  BY PathsAre
<1>2. \A i \in 1..Len(p) : /\ p[i].revision \in Nat /\ p[i].at \in Nat /\ p[i].id \in Nat
                           /\ p[i].from \in Nat /\ p[i].to \in Nat
  BY <1>1, ManifestTypes
<1>3. Revisions(p) \in [1..Len(p) -> Nat] /\ Availability(p) \in [1..Len(p) -> Nat]
  BY <1>1, <1>2 DEF Revisions, Availability
<1>4. p[1].from \in Nat /\ p[Len(p)].to \in Nat
  BY <1>1, <1>2
<1>5. Outside(p) \in Int
  BY <1>4 DEF Outside
<1>6. IsVector(Revisions(p)) /\ IsVector(Availability(p))
  BY <1>1, <1>3 DEF IsVector
<1>7. QED
  BY <1>2, <1>5, <1>6

\* Of two paths as long as each other, the ids put one first.
LEMMA IdsAreAnOrder ==
    ASSUME NEW C, Catalog(C), NEW start \in Nat, NEW end \in Nat,
           NEW p \in Paths(C, start, end), NEW q \in Paths(C, start, end),
           NEW r \in Paths(C, start, end), Len(p) = Len(q), Len(q) = Len(r)
    PROVE  /\ ~SmallerIds(p, p)
           /\ p = q \/ SmallerIds(p, q) \/ SmallerIds(q, p)
           /\ SmallerIds(p, q) /\ SmallerIds(q, r) => SmallerIds(p, r)
<1> DEFINE n == Len(p)
<1>1. /\ n \in Nat /\ DOMAIN p = 1..n /\ DOMAIN q = 1..n /\ DOMAIN r = 1..n
      /\ p \in [1..n -> C] /\ q \in [1..n -> C]
      /\ \A i \in 1..n : p[i] \in C /\ q[i] \in C
  <2>1. n \in Nat /\ DOMAIN p = 1..n /\ p \in [1..n -> C] /\ \A i \in 1..n : p[i] \in C
    BY PathsAre
  <2>2. DOMAIN q = 1..Len(q) /\ q \in [1..Len(q) -> C] /\ \A i \in 1..Len(q) : q[i] \in C
    BY PathsAre
  <2>3. DOMAIN r = 1..Len(r)
    BY PathsAre
  <2>4. QED
    BY <2>1, <2>2, <2>3
<1>2. \A i \in 1..n : p[i].id \in Nat /\ q[i].id \in Nat /\ r[i].id \in Nat
  BY PathsRank
<1> HIDE DEF n
<1>3. ~SmallerIds(p, p)
  BY <1>1, <1>2 DEF SmallerIds
<1>4. ASSUME p # q
      PROVE  SmallerIds(p, q) \/ SmallerIds(q, p)
  <2> DEFINE D == {i \in 1..n : p[i].id # q[i].id}
  <2>1. D # {}
    <3>1. PICK i \in 1..n : p[i] # q[i]
      BY <1>1, <1>4
    <3>2. p[i].id # q[i].id
      BY <1>1, <3>1 DEF Catalog
    <3>3. QED
      BY <3>2
  <2>2. D \subseteq Nat
    OBVIOUS
  <2>3. PICK i \in D : \A j \in D : i <= j
    <3> HIDE DEF D
    <3>1. QED
      BY <2>1, <2>2, LeastOf
  <2>4. i \in 1..n /\ p[i].id # q[i].id
    OBVIOUS
  <2>5. \A j \in 1..(i - 1) : p[j].id = q[j].id
    <3>1. \A j \in 1..(i - 1) : j \in 1..n /\ ~(i <= j)
      BY <1>1, <2>4
    <3>2. QED
      BY <2>3, <3>1
  <2> HIDE DEF D
  <2>6. p[i].id < q[i].id \/ q[i].id < p[i].id
    BY <1>2, <2>4
  <2>7. QED
    BY <1>1, <2>4, <2>5, <2>6 DEF SmallerIds
<1>5. ASSUME SmallerIds(p, q), SmallerIds(q, r)
      PROVE  SmallerIds(p, r)
  <2>1. PICK i \in 1..n : p[i].id < q[i].id /\ \A j \in 1..(i - 1) : p[j].id = q[j].id
    BY <1>1, <1>5 DEF SmallerIds
  <2>2. PICK k \in 1..n : q[k].id < r[k].id /\ \A j \in 1..(k - 1) : q[j].id = r[j].id
    BY <1>1, <1>5 DEF SmallerIds
  <2>3. CASE i = k
    <3>1. p[i].id < r[i].id
      BY <1>2, <2>1, <2>2, <2>3
    <3>2. \A j \in 1..(i - 1) : p[j].id = r[j].id
      BY <2>1, <2>2, <2>3
    <3>3. QED
      BY <1>1, <3>1, <3>2 DEF SmallerIds
  <2>4. CASE i < k
    <3>1. i \in 1..(k - 1) /\ \A j \in 1..(i - 1) : j \in 1..(k - 1)
      BY <1>1, <2>4
    <3>2. p[i].id < r[i].id /\ \A j \in 1..(i - 1) : p[j].id = r[j].id
      BY <2>1, <2>2, <3>1
    <3>3. QED
      BY <1>1, <3>2 DEF SmallerIds
  <2>5. CASE k < i
    <3>1. k \in 1..(i - 1) /\ \A j \in 1..(k - 1) : j \in 1..(i - 1)
      BY <1>1, <2>5
    <3>2. p[k].id < r[k].id /\ \A j \in 1..(k - 1) : p[j].id = r[j].id
      BY <2>1, <2>2, <3>1
    <3>3. QED
      BY <1>1, <3>2 DEF SmallerIds
  <2>6. QED
    BY <1>1, <2>3, <2>4, <2>5
<1>6. QED
  BY <1>3, <1>4, <1>5

\* No path ranks before itself, and of two paths one ranks before the other.
LEMMA RankingIsTotal ==
    ASSUME NEW C, Catalog(C), NEW start \in Nat, NEW end \in Nat,
           NEW p \in Paths(C, start, end), NEW q \in Paths(C, start, end)
    PROVE  ~RanksFirst(p, p) /\ (p = q \/ RanksFirst(p, q) \/ RanksFirst(q, p))
<1>1. Len(p) \in Nat /\ Len(q) \in Nat
  BY PathsAre
<1>2. /\ IsVector(Revisions(p)) /\ IsVector(Availability(p)) /\ Outside(p) \in Int
      /\ IsVector(Revisions(q)) /\ IsVector(Availability(q)) /\ Outside(q) \in Int
  BY PathsRank
<1>3. /\ ~Greater(Revisions(p), Revisions(p)) /\ ~Greater(Availability(p), Availability(p))
      /\ \/ Greater(Revisions(p), Revisions(q)) \/ Greater(Revisions(q), Revisions(p))
         \/ Same(Revisions(p), Revisions(q))
      /\ Same(Revisions(p), Revisions(q)) => Same(Revisions(q), Revisions(p))
      /\ \/ Greater(Availability(p), Availability(q)) \/ Greater(Availability(q), Availability(p))
         \/ Same(Availability(p), Availability(q))
      /\ Same(Availability(p), Availability(q)) => Same(Availability(q), Availability(p))
  BY <1>2, GreaterIsAnOrder
<1>4. ~SmallerIds(p, p)
  BY IdsAreAnOrder
<1>5. Len(p) = Len(q) => p = q \/ SmallerIds(p, q) \/ SmallerIds(q, p)
  BY IdsAreAnOrder
<1>6. ~RanksFirst(p, p)
  BY <1>1, <1>2, <1>3, <1>4 DEF RanksFirst
<1>7. p = q \/ RanksFirst(p, q) \/ RanksFirst(q, p)
  BY <1>1, <1>2, <1>3, <1>5 DEF RanksFirst
<1>8. QED
  BY <1>6, <1>7

\* The ranking is transitive through all of its five criteria.
LEMMA RankingIsTransitive ==
    ASSUME NEW C, Catalog(C), NEW start \in Nat, NEW end \in Nat,
           NEW p \in Paths(C, start, end), NEW q \in Paths(C, start, end),
           NEW r \in Paths(C, start, end), RanksFirst(p, q), RanksFirst(q, r)
    PROVE  RanksFirst(p, r)
<1>1. Len(p) \in Nat /\ Len(q) \in Nat /\ Len(r) \in Nat
  BY PathsAre
<1>2. /\ IsVector(Revisions(p)) /\ IsVector(Revisions(q)) /\ IsVector(Revisions(r))
      /\ IsVector(Availability(p)) /\ IsVector(Availability(q)) /\ IsVector(Availability(r))
      /\ Outside(p) \in Int /\ Outside(q) \in Int /\ Outside(r) \in Int
  BY PathsRank
<1>3. CASE ~(Len(p) = Len(q) /\ Len(q) = Len(r))
  <2>1. Len(p) <= Len(q) /\ Len(q) <= Len(r)
    BY <1>1 DEF RanksFirst
  <2>2. Len(p) < Len(r)
    BY <1>1, <1>3, <2>1
  <2>3. QED
    BY <2>2 DEF RanksFirst
<1>4. CASE Len(p) = Len(q) /\ Len(q) = Len(r)
  <2>1. /\ Greater(Revisions(p), Revisions(q)) /\ Greater(Revisions(q), Revisions(r))
              => Greater(Revisions(p), Revisions(r))
        /\ Greater(Revisions(p), Revisions(q)) /\ Same(Revisions(q), Revisions(r))
              => Greater(Revisions(p), Revisions(r))
        /\ Same(Revisions(p), Revisions(q)) /\ Greater(Revisions(q), Revisions(r))
              => Greater(Revisions(p), Revisions(r))
        /\ Same(Revisions(p), Revisions(q)) /\ Same(Revisions(q), Revisions(r))
              => Same(Revisions(p), Revisions(r))
    BY <1>2, GreaterIsTransitive
  <2>2. /\ Greater(Availability(p), Availability(q)) /\ Greater(Availability(q), Availability(r))
              => Greater(Availability(p), Availability(r))
        /\ Greater(Availability(p), Availability(q)) /\ Same(Availability(q), Availability(r))
              => Greater(Availability(p), Availability(r))
        /\ Same(Availability(p), Availability(q)) /\ Greater(Availability(q), Availability(r))
              => Greater(Availability(p), Availability(r))
        /\ Same(Availability(p), Availability(q)) /\ Same(Availability(q), Availability(r))
              => Same(Availability(p), Availability(r))
    BY <1>2, GreaterIsTransitive
  <2>3. SmallerIds(p, q) /\ SmallerIds(q, r) => SmallerIds(p, r)
    BY <1>4, IdsAreAnOrder
  <2>4. QED
    BY <1>1, <1>2, <1>4, <2>1, <2>2, <2>3 DEF RanksFirst
<1>5. QED
  BY <1>3, <1>4

\* A path is told by the manifests on it.
LEMMA PathsByManifests ==
    ASSUME NEW C, Catalog(C), NEW start \in Nat, NEW end \in Nat,
           NEW p \in Paths(C, start, end), NEW q \in Paths(C, start, end), On(p) = On(q)
    PROVE  p = q
<1> DEFINE n == Len(p)
           D == {i \in 1..n : p[i] # q[i]}
<1>1. Len(q) = Len(p)
  BY PathsCount
<1>2. /\ n \in Nat /\ p \in [1..n -> C] /\ q \in [1..n -> C]
      /\ \A i \in 1..n : p[i] \in C /\ q[i] \in C
  BY <1>1, PathsAre
<1>3. SUFFICES ASSUME D # {} PROVE FALSE
  BY <1>2
<1>4. PICK i \in D : \A j \in D : i <= j
  <2>1. D \subseteq Nat
    OBVIOUS
  <2> HIDE DEF D
  <2>2. QED
    BY <1>3, <2>1, LeastOf
<1>5. i \in 1..n /\ p[i] # q[i]
  OBVIOUS
<1>6. \A j \in 1..n : j < i => p[j] = q[j]
  <2>1. \A j \in 1..n : j < i => ~(i <= j)
    BY <1>5
  <2>2. QED
    BY <1>4, <2>1
<1> HIDE DEF D, n
<1>7. PICK j \in 1..n : p[i] = q[j]
  BY <1>1, <1>5 DEF On, n
<1>8. PICK k \in 1..n : q[i] = p[k]
  BY <1>1, <1>5 DEF On, n
<1>9. j > i
  <2>1. ~(j < i)
    <3>1. j < i => p[j] = p[i] /\ j # i
      BY <1>2, <1>5, <1>6, <1>7
    <3>2. QED
      BY <1>5, <3>1, PathsAreOrdered DEF n
  <2>2. j # i
    BY <1>5, <1>7
  <2>3. QED
    BY <1>2, <1>5, <2>1, <2>2
<1>10. k > i
  <2>1. ~(k < i)
    <3>1. k < i => q[k] = q[i] /\ k # i
      BY <1>2, <1>5, <1>6, <1>8
    <3>2. QED
      BY <1>1, <1>5, <3>1, PathsAreOrdered DEF n
  <2>2. k # i
    BY <1>5, <1>8
  <2>3. QED
    BY <1>2, <1>5, <2>1, <2>2
<1>11. q[i].from < q[j].from /\ p[i].from < p[k].from
  BY <1>1, <1>2, <1>5, <1>9, <1>10, PathsAreOrdered DEF n
<1>12. p[i].from \in Nat /\ q[i].from \in Nat
  BY <1>2, <1>5, ManifestTypes
<1>13. QED
  BY <1>7, <1>8, <1>11, <1>12

\* A period has finitely many paths, for the manifests on a path tell it.
LEMMA PathsAreFinite ==
    ASSUME NEW C, Catalog(C), NEW start \in Nat, NEW end \in Nat
    PROVE  IsFiniteSet(Paths(C, start, end))
<1> DEFINE P == Paths(C, start, end)
           f == [p \in P |-> On(p)]
<1>1. IsFiniteSet(SUBSET C)
  BY FS_SUBSET DEF Catalog
<1>2. f \in [P -> SUBSET C]
  BY PathsCount
<1>3. \A p, q \in P : f[p] = f[q] => p = q
  BY PathsByManifests
<1> HIDE DEF P
<1>4. f \in Injection(P, SUBSET C)
  BY <1>2, <1>3 DEF Injection, IsInjective
<1> HIDE DEF f
<1>5. IsFiniteSet(P)
  BY <1>1, <1>4, FS_Injection
<1>6. QED
  BY <1>5 DEF P

BestOf(paths) == CHOOSE p \in paths : \A q \in paths : p = q \/ RanksFirst(p, q)

\* Where there is a path one ranks before all the others.
LEMMA OnePathIsBest ==
    ASSUME NEW C, Catalog(C), NEW start \in Nat, NEW end \in Nat, Paths(C, start, end) # {}
    PROVE  /\ BestOf(Paths(C, start, end)) \in Paths(C, start, end)
           /\ \A q \in Paths(C, start, end) :
                 BestOf(Paths(C, start, end)) = q \/ RanksFirst(BestOf(Paths(C, start, end)), q)
<1> DEFINE P == Paths(C, start, end)
           R == {pair \in P \X P : RanksFirst(pair[1], pair[2])}
<1>1. \A p, q \in P : <<p, q>> \in R <=> RanksFirst(p, q)
  OBVIOUS
<1>2. IsFiniteSet(P) /\ P # {}
  BY PathsAreFinite
<1>3. \A p, q \in P : ~RanksFirst(p, p) /\ (p = q \/ RanksFirst(p, q) \/ RanksFirst(q, p))
  BY RankingIsTotal
<1>4. \A p, q, r \in P : RanksFirst(p, q) /\ RanksFirst(q, r) => RanksFirst(p, r)
  BY RankingIsTransitive
<1> HIDE DEF P, R
<1>5. \A p \in P : <<p, p>> \notin R
  BY <1>1, <1>3
<1>6. \A p, q, r \in P : <<p, q>> \in R /\ <<q, r>> \in R => <<p, r>> \in R
  BY <1>1, <1>4
<1>7. PICK p \in P : \A q \in P : <<q, p>> \notin R
  BY <1>2, <1>5, <1>6, FirstOf
<1>8. \A q \in P : p = q \/ RanksFirst(p, q)
  BY <1>1, <1>3, <1>7
<1>9. BestOf(P) \in P /\ \A q \in P : BestOf(P) = q \/ RanksFirst(BestOf(P), q)
  BY <1>8 DEF BestOf
<1>10. QED
  BY <1>9 DEF P

-----------------------------------------------------------------------------
(* The cover *)

\* Every cover is the manifests of a path that ranks before all others.
LEMMA CoverIsBest ==
    ASSUME NEW C, Catalog(C), NEW start \in Nat, NEW end \in Nat
    PROVE  \/ /\ Paths(C, start, end) = {}
              /\ Cover(C, start, end) = {} /\ {m \in C : m.id \in Cover(C, start, end)} = {}
           \/ \E best \in Paths(C, start, end) :
                 /\ \A q \in Paths(C, start, end) : best = q \/ RanksFirst(best, q)
                 /\ {m \in C : m.id \in Cover(C, start, end)} = On(best)
<1>1. CASE Paths(C, start, end) = {}
  BY <1>1 DEF Cover
<1>2. CASE Paths(C, start, end) # {}
  <2>1. PICK best \in Paths(C, start, end) :
            /\ best = BestOf(Paths(C, start, end))
            /\ \A q \in Paths(C, start, end) : best = q \/ RanksFirst(best, q)
    BY <1>2, OnePathIsBest
  <2>2. Cover(C, start, end) = {best[i].id : i \in DOMAIN best}
    BY <1>2, <2>1 DEF Cover, BestOf
  <2>3. DOMAIN best = 1..Len(best) /\ \A i \in 1..Len(best) : best[i] \in C
    BY PathsAre
  <2>4. \A m \in C, i \in 1..Len(best) : m.id = best[i].id => m = best[i]
    BY <2>3 DEF Catalog
  <2>5. {m \in C : m.id \in Cover(C, start, end)} = On(best)
    BY <2>2, <2>3, <2>4 DEF On
  <2>6. QED
    BY <2>1, <2>5
<1>3. QED
  BY <1>1, <1>2

\* The cover tiles the period with no more manifests than any tiling.
LEMMA CoversAreSmallest ==
    ASSUME NEW C, Catalog(C), NEW start \in Nat, NEW end \in Nat, start < end,
           NEW T \in SUBSET C, Tiles(T, start, end)
    PROVE  /\ Tiles({m \in C : m.id \in Cover(C, start, end)}, start, end)
           /\ Cardinality({m \in C : m.id \in Cover(C, start, end)}) <= Cardinality(T)
<1>1. PICK path \in Paths(C, start, end) : On(path) = T /\ Len(path) = Cardinality(T)
  BY TilingsArePaths
<1>2. PICK best \in Paths(C, start, end) :
          /\ best = path \/ RanksFirst(best, path)
          /\ {m \in C : m.id \in Cover(C, start, end)} = On(best)
  BY CoverIsBest
<1>3. Len(best) \in Nat /\ Len(path) \in Nat
  BY PathsAre
<1>4. Len(best) <= Len(path)
  BY <1>2, <1>3 DEF RanksFirst
<1>5. Tiles(On(best), start, end) /\ Cardinality(On(best)) = Len(best)
  BY PathsTile, PathsCount
<1>6. QED
  BY <1>1, <1>2, <1>4, <1>5

\* A path on which a manifest takes the place of an older revision of its
\* days is a path, and ranks before.
LEMMA NewerRanksFirst ==
    ASSUME NEW C, Catalog(C), NEW start \in Nat, NEW end \in Nat,
           NEW p \in Paths(C, start, end), NEW i \in 1..Len(p), NEW n \in C,
           n.from = p[i].from, n.to = p[i].to, n.revision > p[i].revision
    PROVE  /\ [p EXCEPT ![i] = n] \in Paths(C, start, end)
           /\ RanksFirst([p EXCEPT ![i] = n], p)
<1> DEFINE l == Len(p)
<1>1. /\ l \in Nat /\ l \in 1..(end - start) /\ DOMAIN p = 1..l /\ p \in [1..l -> C]
      /\ (\A k \in 1..l : p[k] \in C) /\ IsPath(p, start, end)
  BY PathsAre
<1>r. PICK r : r = [p EXCEPT ![i] = n]
  OBVIOUS
<1> HIDE DEF l
<1>2. i \in 1..l
  BY DEF l
<1>3. r \in [1..l -> C] /\ r[i] = n /\ \A k \in 1..l : k # i => r[k] = p[k]
  BY <1>r, <1>1, <1>2
<1>4. \A k \in 1..l : r[k].from = p[k].from /\ r[k].to = p[k].to
  BY <1>2, <1>3
<1>5. Len(r) = l
  BY <1>1, <1>3, ArePaths
<1>6. IsPath(r, start, end)
  <2>1. 1 \in 1..l /\ l \in 1..l /\ \A k \in 1..(l - 1) : k \in 1..l /\ k + 1 \in 1..l
    BY <1>1, <1>2
  <2>2. r[1].from <= start /\ r[1].to > start
    BY <1>1, <1>4, <2>1 DEF IsPath
  <2>3. \A k \in 1..(l - 1) : r[k].to < end /\ r[k + 1].from = r[k].to /\ r[k + 1].to > r[k].to
    BY <1>1, <1>4, <2>1 DEF IsPath, l
  <2>4. r[l].to >= end
    BY <1>1, <1>4, <2>1 DEF IsPath, l
  <2>5. QED
    BY <1>5, <2>2, <2>3, <2>4 DEF IsPath
<1>7. r \in Paths(C, start, end)
  BY <1>1, <1>3, <1>6, ArePaths
<1>8. IsVector(Revisions(p)) /\ IsVector(Revisions(r))
  BY <1>7, PathsRank
<1> DEFINE v == n.revision
           old == p[i].revision
<1>9. v \in Nat /\ old \in Nat /\ v > old
  BY <1>1, <1>2, ManifestTypes
<1>10. /\ DOMAIN Revisions(p) = 1..l /\ DOMAIN Revisions(r) = 1..l
       /\ Revisions(r)[i] = v /\ Revisions(p)[i] = old
       /\ \A k \in 1..l : k # i => Revisions(r)[k] = Revisions(p)[k]
  BY <1>1, <1>2, <1>3 DEF Revisions
<1> HIDE DEF v, old
<1> DEFINE Had(w) == {k \in DOMAIN Revisions(p) : Revisions(p)[k] = w}
           Has(w) == {k \in DOMAIN Revisions(r) : Revisions(r)[k] = w}
<1>11. Has(v) = Had(v) \cup {i} /\ i \notin Had(v)
  BY <1>2, <1>9, <1>10
<1>12. \A w \in Nat : w > v => Has(w) = Had(w)
  <2>1. \A w \in Nat : w > v => w # v /\ w # old
    BY <1>9
  <2>2. QED
    BY <1>2, <1>10, <2>1
<1>13. \A w : /\ Times(Revisions(r), w) = Cardinality(Has(w))
              /\ Times(Revisions(p), w) = Cardinality(Had(w))
  BY DEF Times
<1>14. IsFiniteSet(Had(v)) /\ Cardinality(Had(v)) \in Nat
  <2>1. IsFiniteSet(Had(v))
    BY <1>8, TimesAreNat
  <2> HIDE DEF Had
  <2>2. QED
    BY <2>1, FS_CardinalityType
<1> HIDE DEF Had, Has
<1>15. Cardinality(Has(v)) = Cardinality(Had(v)) + 1
  BY <1>11, <1>14, FS_AddElement
<1>16. Times(Revisions(r), v) > Times(Revisions(p), v)
  BY <1>13, <1>14, <1>15
<1>17. Greater(Revisions(r), Revisions(p))
  BY <1>8, <1>9, <1>12, <1>13, <1>16, OverAllValues
<1>18. QED
  BY <1>r, <1>5, <1>7, <1>17 DEF RanksFirst, l

\* No manifest of a cover has a newer revision over the same days.
LEMMA CoversAreNewest ==
    ASSUME NEW C, Catalog(C), NEW start \in Nat, NEW end \in Nat,
           NEW m \in C, NEW n \in C, m.id \in Cover(C, start, end),
           m.from = n.from, m.to = n.to
    PROVE  n.revision <= m.revision
<1>1. n.revision \in Nat /\ m.revision \in Nat
  BY ManifestTypes
<1>2. SUFFICES ASSUME n.revision > m.revision PROVE FALSE
  BY <1>1
<1>3. PICK best \in Paths(C, start, end) :
          /\ \A q \in Paths(C, start, end) : best = q \/ RanksFirst(best, q)
          /\ m \in On(best)
  BY CoverIsBest
<1>4. PICK i \in 1..Len(best) : best[i] = m
  BY <1>3 DEF On
<1> DEFINE r == [best EXCEPT ![i] = n]
<1>5. r \in Paths(C, start, end) /\ RanksFirst(r, best)
  BY <1>2, <1>4, NewerRanksFirst
<1> HIDE DEF r
<1>6. RanksFirst(r, r)
  BY <1>3, <1>5, RankingIsTransitive
<1>7. QED
  BY <1>5, <1>6, RankingIsTotal

-----------------------------------------------------------------------------
(* What is published is a catalog *)

CoversInv == PinsTypeOK /\ Catalog(manifests)

\* What is available of a catalog is a catalog.
LEMMA CandidatesAreCatalog ==
    ASSUME Catalog(manifests), NEW asOf
    PROVE  Catalog(Candidates(asOf))
<1>1. Candidates(asOf) \in SUBSET manifests
  BY DEF Candidates
<1>2. IsFiniteSet(Candidates(asOf))
  BY <1>1, FS_Subset DEF Catalog
<1>3. QED
  BY <1>1, <1>2 DEF Catalog

\* A cover is a set of ids.
LEMMA CoverIsOfIds ==
    ASSUME NEW C, Catalog(C), NEW start \in Nat, NEW end \in Nat
    PROVE  Cover(C, start, end) \in SUBSET Ids
<1>1. CASE Paths(C, start, end) = {}
  BY <1>1 DEF Cover
<1>2. CASE Paths(C, start, end) # {}
  <2>1. PICK best \in Paths(C, start, end) : best = BestOf(Paths(C, start, end))
    BY <1>2, OnePathIsBest
  <2>2. Cover(C, start, end) = {best[i].id : i \in DOMAIN best}
    BY <1>2, <2>1 DEF Cover, BestOf
  <2>3. DOMAIN best = 1..Len(best) /\ \A i \in 1..Len(best) : best[i] \in C
    BY PathsAre
  <2>4. \A i \in 1..Len(best) : best[i].id \in Ids
    BY <2>3, ManifestTypes
  <2>5. QED
    BY <2>2, <2>3, <2>4
<1>3. QED
  BY <1>1, <1>2

\* A publication keeps ids unique, also when it retires what it replaces.
LEMMA PublishKeeps ==
    ASSUME CoversInv, NEW id \in Ids, NEW from \in 0..Days, NEW to \in 0..Days,
           NEW at \in Instants, NEW retires \in BOOLEAN, Publish(id, from, to, at, retires)
    PROVE  CoversInv'
<1> DEFINE S == SamePeriod(from, to)
           After(m) == IF retires THEN Retired(m) ELSE m
           Kept == {After(m) : m \in S}
           new == [id |-> id, from |-> from, to |-> to, at |-> at, status |-> "AVAILABLE",
                   revision |-> Cardinality(S) + 1]
<1>1. /\ \A m \in manifests : m.id # id
      /\ from < to /\ now' = (IF at > now THEN at ELSE now) /\ runs' = runs
      /\ manifests' = (manifests \ S) \cup Kept \cup {new}
  BY DEF Publish
<1>2. manifests \subseteq Manifest /\ S \in SUBSET manifests /\ IsFiniteSet(manifests)
  BY DEF CoversInv, PinsTypeOK, Catalog, SamePeriod
<1>3. at \in Nat /\ now' \in Nat
  BY <1>1 DEF Instants, CoversInv, PinsTypeOK
<1>4. ASSUME NEW m \in manifests
      PROVE  /\ After(m) \in Manifest /\ After(m).id = m.id
             /\ After(m).from = m.from /\ After(m).to = m.to
  <2>1. m \in Manifest
    BY <1>2
  <2>2. /\ Retired(m) \in Manifest /\ Retired(m).id = m.id
        /\ Retired(m).from = m.from /\ Retired(m).to = m.to
    BY <2>1 DEF Retired, Manifest
  <2>3. QED
    BY <2>1, <2>2
<1> HIDE DEF S, After
<1>5. IsFiniteSet(S) /\ Cardinality(S) \in Nat
  BY <1>2, FS_Subset, FS_CardinalityType
<1>6. /\ new \in Manifest /\ new.id = id /\ new.from = from /\ new.to = to
  BY <1>3, <1>5 DEF Manifest
<1>7. IsFiniteSet(Kept)
  <2> DEFINE f == [m \in S |-> After(m)]
  <2>1. f \in Surjection(S, Kept)
    BY DEF Surjection
  <2> HIDE DEF f, Kept
  <2>2. QED
    BY <1>5, <2>1, FS_Surjection
<1> HIDE DEF new
<1>8. IsFiniteSet(manifests')
  <2> HIDE DEF Kept
  <2>1. IsFiniteSet(manifests \ S)
    BY <1>2, FS_Subset
  <2>2. IsFiniteSet((manifests \ S) \cup Kept)
    BY <1>7, <2>1, FS_Union
  <2>3. QED
    BY <1>1, <2>2, FS_AddElement
<1>9. ASSUME NEW x \in manifests'
      PROVE  x = new \/ \E m \in manifests :
                            x.id = m.id /\ x = IF m \in S THEN After(m) ELSE m
  BY <1>1, <1>2, <1>4
<1>10. manifests' \subseteq Manifest /\ \A m \in manifests' : m.from < m.to
  <2>1. \A m \in manifests : m \in Manifest /\ m.from < m.to
    BY <1>2 DEF CoversInv, Catalog
  <2>2. QED
    BY <1>1, <1>4, <1>6, <1>9, <2>1
<1>11. ASSUME NEW x \in manifests', NEW y \in manifests', x.id = y.id
       PROVE  x = y
  <2>1. CASE x = new \/ y = new
    BY <1>1, <1>6, <1>9, <1>11, <2>1
  <2>2. CASE x # new /\ y # new
    <3>1. PICK m \in manifests : x.id = m.id /\ x = IF m \in S THEN After(m) ELSE m
      BY <1>9, <2>2
    <3>2. PICK n \in manifests : y.id = n.id /\ y = IF n \in S THEN After(n) ELSE n
      BY <1>9, <2>2
    <3>3. m = n
      BY <1>11, <3>1, <3>2 DEF CoversInv, Catalog
    <3>4. QED
      BY <3>1, <3>2, <3>3
  <2>3. QED
    BY <2>1, <2>2
<1>12. PinsTypeOK'
  BY <1>1, <1>3, <1>10 DEF CoversInv, PinsTypeOK, Run
<1>13. QED
  BY <1>8, <1>10, <1>11, <1>12 DEF CoversInv, Catalog

\* A request changes no manifest and pins ids.
LEMMA RequestKeeps ==
    ASSUME CoversInv, NEW start \in 0..Days, NEW end \in 0..Days, Request(start, end)
    PROVE  CoversInv'
<1>1. now + 1 \in Nat /\ start \in Nat /\ end \in Nat
  BY PinsAssumption DEF CoversInv, PinsTypeOK
<1>2. Cover(Candidates(now + 1), start, end) \in SUBSET Ids
  BY <1>1, CandidatesAreCatalog, CoverIsOfIds DEF CoversInv
<1>3. manifests' = manifests /\ now' = now + 1
  BY DEF Request
<1>4. runs' \subseteq Run
  <2>1. Candidates(now + 1) \in SUBSET Manifest
    BY DEF Candidates, CoversInv, PinsTypeOK
  <2>2. [asOf |-> now + 1, start |-> start, end |-> end,
         pins |-> Cover(Candidates(now + 1), start, end),
         seen |-> Candidates(now + 1)] \in Run
    BY <1>1, <1>2, <2>1 DEF Run
  <2>3. QED
    BY <2>2 DEF Request, CoversInv, PinsTypeOK
<1>5. QED
  BY <1>1, <1>3, <1>4 DEF CoversInv, PinsTypeOK, Catalog, Manifest, Run

\* Of a catalog every cover is a smallest tiling by the newest revisions.
LEMMA CoversInvImplies ==
    ASSUME CoversInv
    PROVE  CoversInvariant
<1>1. Catalog(Candidates(now))
  BY CandidatesAreCatalog DEF CoversInv
<1>2. \A day \in 0..Days : day \in Nat
  BY PinsAssumption
<1>3. CoverIsSmallestTiling
  BY <1>1, <1>2, CoversAreSmallest DEF CoverIsSmallestTiling
<1>4. CoverIsNewest
  BY <1>1, <1>2, CoversAreNewest DEF CoverIsNewest
<1>5. QED
  BY <1>3, <1>4 DEF CoversInvariant, CoversInv

\* Every step keeps the catalog.
LEMMA CoversInvStep ==
    ASSUME CoversInv, [PinsNext]_pinsVars
    PROVE  CoversInv'
<1>1. CASE \E id \in Ids, from, to \in 0..Days, at \in Instants, retires \in BOOLEAN :
              Publish(id, from, to, at, retires)
  BY <1>1, PublishKeeps
<1>2. CASE \E start, end \in 0..Days : Request(start, end)
  BY <1>2, RequestKeeps
<1>3. CASE UNCHANGED pinsVars
  BY <1>3 DEF pinsVars, CoversInv, PinsTypeOK, Catalog, Manifest, Run
<1>4. QED
  BY <1>1, <1>2, <1>3 DEF PinsNext

\* The cover the code computes for a period, going from one manifest to the
\* next that begins where it ends, is a smallest of all the sets of available
\* manifests with every day in exactly one, it is found whenever there is
\* such a set, and none of its manifests has a newer revision.
THEOREM CoversAreRight == PinsSpec => []CoversInvariant
<1>1. PinsInit => CoversInv
  BY FS_EmptySet DEF PinsInit, CoversInv, PinsTypeOK, Catalog
<1>2. CoversInv /\ [PinsNext]_pinsVars => CoversInv'
  BY CoversInvStep
<1>3. CoversInv => CoversInvariant
  BY CoversInvImplies
<1>4. QED
  BY <1>1, <1>2, <1>3, PTL DEF PinsSpec

-----------------------------------------------------------------------------
(* Pins *)

\* A run pinned the cover of what it saw; each of those manifests is still
\* there as it was, or retired.
PinnedWhatItSaw(run) ==
    /\ Catalog(run.seen)
    /\ run.start \in Nat /\ run.end \in Nat
    /\ run.pins = Cover(run.seen, run.start, run.end)
    /\ run.pins # {}
    /\ \A m \in run.seen : /\ m.status = "AVAILABLE" /\ m.at <= run.asOf
                           /\ m \in manifests \/ Retired(m) \in manifests

PinsInv == CoversInv /\ \A run \in runs : PinnedWhatItSaw(run)

\* A cover names candidates.
LEMMA CoverIsOfCandidates ==
    ASSUME NEW C, Catalog(C), NEW start \in Nat, NEW end \in Nat,
           NEW id \in Cover(C, start, end)
    PROVE  \E m \in C : m.id = id
<1>1. Paths(C, start, end) # {}
  BY DEF Cover
<1>2. PICK best \in Paths(C, start, end) : best = BestOf(Paths(C, start, end))
  BY <1>1, OnePathIsBest
<1>3. Cover(C, start, end) = {best[i].id : i \in DOMAIN best}
  BY <1>1, <1>2 DEF Cover, BestOf
<1>4. DOMAIN best = 1..Len(best) /\ \A i \in 1..Len(best) : best[i] \in C
  BY PathsAre
<1>5. QED
  BY <1>3, <1>4

\* Of fewer candidates, with those of the cover among them, the cover is the
\* same.
LEMMA FewerCandidatesSameCover ==
    ASSUME NEW C, Catalog(C), NEW start \in Nat, NEW end \in Nat,
           NEW B \in SUBSET C, Cover(C, start, end) # {},
           \A m \in C : m.id \in Cover(C, start, end) => m \in B
    PROVE  Cover(B, start, end) = Cover(C, start, end)
<1>1. Paths(C, start, end) # {}
  BY DEF Cover
<1>2. PICK best \in Paths(C, start, end) :
          /\ best = BestOf(Paths(C, start, end))
          /\ \A q \in Paths(C, start, end) : best = q \/ RanksFirst(best, q)
  BY <1>1, OnePathIsBest
<1>3. Cover(C, start, end) = {best[i].id : i \in DOMAIN best}
  BY <1>1, <1>2 DEF Cover, BestOf
<1>4. /\ Len(best) \in 1..(end - start) /\ DOMAIN best = 1..Len(best)
      /\ best \in [1..Len(best) -> C] /\ \A i \in 1..Len(best) : best[i] \in C
      /\ IsPath(best, start, end)
  BY PathsAre
<1>5. \A i \in 1..Len(best) : best[i] \in B
  BY <1>3, <1>4
<1>6. best \in [1..Len(best) -> B]
  BY <1>4, <1>5
<1>7. best \in Paths(B, start, end)
  BY <1>4, <1>6, ArePaths
<1>8. Paths(B, start, end) \subseteq Paths(C, start, end)
  <2>1. ASSUME NEW p \in Paths(B, start, end)
        PROVE  p \in Paths(C, start, end)
    <3>1. /\ Len(p) \in Nat /\ 1 <= Len(p) /\ Len(p) <= end - start
          /\ p \in [1..Len(p) -> B] /\ IsPath(p, start, end)
      BY PathsAre
    <3>2. Len(p) \in 1..(end - start)
      BY <3>1
    <3>3. p \in [1..Len(p) -> C]
      BY <3>1
    <3>4. QED
      BY <3>1, <3>2, <3>3, ArePaths
  <2>2. QED
    BY <2>1
<1>9. Catalog(B)
  <2>1. IsFiniteSet(B)
    BY FS_Subset DEF Catalog
  <2>2. QED
    BY <2>1 DEF Catalog
<1>10. PICK first \in Paths(B, start, end) :
           /\ first = BestOf(Paths(B, start, end))
           /\ \A q \in Paths(B, start, end) : first = q \/ RanksFirst(first, q)
  BY <1>7, <1>9, OnePathIsBest
<1>11. first = best
  <2>1. first = best \/ (RanksFirst(first, best) /\ RanksFirst(best, first))
    BY <1>2, <1>7, <1>8, <1>10
  <2>2. RanksFirst(first, best) /\ RanksFirst(best, first) => RanksFirst(first, first)
    BY <1>8, RankingIsTransitive
  <2>3. ~RanksFirst(first, first)
    BY <1>8, RankingIsTotal
  <2>4. QED
    BY <2>1, <2>2, <2>3
<1>12. Cover(B, start, end) = {first[i].id : i \in DOMAIN first}
  BY <1>7, <1>10 DEF Cover, BestOf
<1>13. QED
  BY <1>3, <1>11, <1>12

\* A publication retires or leaves what a run saw.
LEMMA PublishKeepsSeen ==
    ASSUME NEW id \in Ids, NEW from \in 0..Days, NEW to \in 0..Days,
           NEW at \in Instants, NEW retires \in BOOLEAN, Publish(id, from, to, at, retires),
           NEW m, m \in manifests \/ Retired(m) \in manifests
    PROVE  m \in manifests' \/ Retired(m) \in manifests'
<1> DEFINE S == SamePeriod(from, to)
           After(x) == IF retires THEN Retired(x) ELSE x
<1>1. \A x \in manifests : x \in manifests' \/ (x \in S /\ After(x) \in manifests')
  BY DEF Publish
<1>2. Retired(Retired(m)) = Retired(m)
  BY DEF Retired
<1>3. QED
  BY <1>1, <1>2

\* Every step keeps it: a request pins what it sees, a publication retires or
\* leaves.
LEMMA PinsInvStep ==
    ASSUME PinsInv, [PinsNext]_pinsVars
    PROVE  PinsInv'
<1>1. CoversInv'
  BY CoversInvStep DEF PinsInv
<1>2. CASE \E id \in Ids, from, to \in 0..Days, at \in Instants, retires \in BOOLEAN :
              Publish(id, from, to, at, retires)
  <2>1. PICK id \in Ids, from \in 0..Days, to \in 0..Days, at \in Instants,
             retires \in BOOLEAN : Publish(id, from, to, at, retires)
    BY <1>2
  <2>2. runs' = runs
    BY <2>1 DEF Publish
  <2>3. ASSUME NEW run \in runs
        PROVE  PinnedWhatItSaw(run)'
    <3>1. PinnedWhatItSaw(run)
      BY DEF PinsInv
    <3>2. \A m \in run.seen : m \in manifests' \/ Retired(m) \in manifests'
      BY <2>1, <3>1, PublishKeepsSeen DEF PinnedWhatItSaw
    <3>3. QED
      BY <3>1, <3>2 DEF PinnedWhatItSaw, Catalog, Manifest
  <2>4. QED
    BY <1>1, <2>2, <2>3 DEF PinsInv
<1>3. CASE \E start, end \in 0..Days : Request(start, end)
  <2>1. PICK start \in 0..Days, end \in 0..Days : Request(start, end)
    BY <1>3
  <2>2. PICK requested :
            requested = [asOf |-> now + 1, start |-> start, end |-> end,
                         pins |-> Cover(Candidates(now + 1), start, end),
                         seen |-> Candidates(now + 1)]
    OBVIOUS
  <2>3. runs' = runs \cup {requested} /\ manifests' = manifests
    BY <2>1, <2>2 DEF Request
  <2>4. start \in Nat /\ end \in Nat
    BY PinsAssumption
  <2>5. PinnedWhatItSaw(requested)
    <3>1. Catalog(Candidates(now + 1))
      BY CandidatesAreCatalog DEF PinsInv, CoversInv
    <3>2. \A m \in Candidates(now + 1) :
             m \in manifests /\ m.status = "AVAILABLE" /\ m.at <= now + 1
      BY DEF Candidates
    <3>3. Cover(Candidates(now + 1), start, end) # {}
      BY <2>1 DEF Request
    <3>4. QED
      BY <2>2, <2>4, <3>1, <3>2, <3>3 DEF PinnedWhatItSaw
  <2>6. \A run \in runs' : PinnedWhatItSaw(run)
    BY <2>3, <2>5 DEF PinsInv
  <2>7. \A run \in runs' : PinnedWhatItSaw(run)'
    BY <2>3, <2>6 DEF PinnedWhatItSaw, Catalog, Manifest
  <2>8. QED
    BY <1>1, <2>7 DEF PinsInv
<1>4. CASE UNCHANGED pinsVars
  <2>1. \A run \in runs : PinnedWhatItSaw(run)'
    BY <1>4 DEF PinsInv, PinnedWhatItSaw, pinsVars, Catalog, Manifest
  <2>2. QED
    BY <1>1, <1>4, <2>1 DEF PinsInv, pinsVars
<1>5. QED
  BY <1>2, <1>3, <1>4 DEF PinsNext

\* Then the oracle, finding nothing late, accepts the pins exactly while they
\* stand.
LEMMA PinsInvVerifies ==
    ASSUME PinsInv
    PROVE  VerifiesWhilePinsStand
<1> SUFFICES ASSUME NEW run \in runs, Late(run) = {}
             PROVE  Verifies(run) <=> PinsStand(run)
  BY DEF VerifiesWhilePinsStand
<1> DEFINE C == Candidates(run.asOf)
<1>1. PinnedWhatItSaw(run) /\ Catalog(manifests)
  BY DEF PinsInv, CoversInv
<1>2. C \subseteq run.seen
  BY DEF Late, Candidates
<1>3. ASSUME PinsStand(run)
      PROVE  Verifies(run)
  <2>1. ASSUME NEW m \in run.seen, m.id \in run.pins
        PROVE  m \in C
    <3>1. Retired(m).id = m.id /\ Retired(m).status = "SUPERSEDED"
      <4>1. m \in Manifest
        BY <1>1 DEF PinnedWhatItSaw, Catalog
      <4>2. QED
        BY <4>1 DEF Retired, Manifest
    <3>2. m \in manifests
      BY <1>1, <1>3, <2>1, <3>1 DEF PinnedWhatItSaw, PinsStand
    <3>3. QED
      BY <1>1, <3>2 DEF PinnedWhatItSaw, Candidates
  <2>2. \A m \in run.seen : m.id \in Cover(run.seen, run.start, run.end) => m \in C
    BY <1>1, <2>1 DEF PinnedWhatItSaw
  <2> HIDE DEF C
  <2>3. Cover(C, run.start, run.end) = Cover(run.seen, run.start, run.end)
    BY <1>1, <1>2, <2>2, FewerCandidatesSameCover DEF PinnedWhatItSaw
  <2>4. QED
    BY <1>1, <2>3 DEF PinnedWhatItSaw, Verifies, C
<1>4. ASSUME Verifies(run)
      PROVE  PinsStand(run)
  <2> SUFFICES ASSUME NEW m \in manifests, m.id \in run.pins
               PROVE  m.status = "AVAILABLE"
    BY DEF PinsStand
  <2>1. m.id \in Cover(C, run.start, run.end)
    BY <1>4 DEF Verifies
  <2>2. Catalog(C)
    BY <1>1, CandidatesAreCatalog
  <2> HIDE DEF C
  <2>3. PICK n \in C : n.id = m.id
    BY <1>1, <2>1, <2>2, CoverIsOfCandidates DEF PinnedWhatItSaw
  <2>4. n \in manifests /\ n.status = "AVAILABLE"
    BY DEF C, Candidates
  <2>5. QED
    BY <1>1, <2>3, <2>4 DEF Catalog
<1>5. QED
  BY <1>3, <1>4

\* The oracle accepts a run's pins, at any later time and whatever has been
\* published and retired since, exactly as long as none of the manifests
\* pinned is retired; unless one became visible after the request that was to
\* be available before it.
THEOREM RunsVerifyWhilePinsStand == PinsSpec => []VerifiesWhilePinsStand
<1>1. PinsInit => PinsInv
  BY FS_EmptySet DEF PinsInit, PinsInv, CoversInv, PinsTypeOK, Catalog
<1>2. PinsInv /\ [PinsNext]_pinsVars => PinsInv'
  BY PinsInvStep
<1>3. PinsInv => VerifiesWhilePinsStand
  BY PinsInvVerifies
<1>4. QED
  BY <1>1, <1>2, <1>3, PTL DEF PinsSpec

-----------------------------------------------------------------------------
(* Objects and rows *)

\* What carries the sha256 the row expects holds the row's bytes.
SealedIsOwn ==
    \A v \in objects : v.sealed => v.body = "own" /\ (v.bucket = Target \/ SealedAway)

\* A version's id is its own, and less than those to come.
IdsAreOwn ==
    /\ IsFiniteSet(objects) /\ \A v \in objects : v.id < NextId
    /\ \A v, w \in objects : v.id = w.id => v = w

\* Outputs and fixtures are only ever put into the configured bucket.
AtTarget == \A k \in Outputs \cup Seeded : rows[k] # None => rows[k].bucket = Target

SealedAt(key, place) ==
    \E v \in objects : /\ v.bucket = place.bucket /\ v.key = key /\ v.id = place.id
                       /\ v.sealed

Normalising == pc \in {"locate", "rewrite", "bind"}

\* What the materialiser has in hand, it has in hand there.
InHand == (orphaned # {} => pc = "delete") /\ (todo # {} => Normalising)

\* The versions rows are about to name
UpsertsAreSealed ==
    \A k \in Keys : upserts[k] # None =>
        /\ k \in Seeded /\ seeding # None
        /\ upserts[k].bucket = Target /\ SealedAt(k, upserts[k])

PendingAreSources ==
    \A k \in Keys : pending[k] # None =>
        k \in sources \ todo /\ Normalising /\ pending[k].bucket = Target

FoundFits ==
    pc \in {"rewrite", "bind"} =>
        /\ todo # {} /\ found \in objects /\ found.key = Source
        /\ IF pc = "bind" THEN found.sealed ELSE found.body = "own"

OutputIsPut ==
    output # None =>
        \E v \in objects : /\ v.bucket = Target /\ v.key = output.key
                           /\ v.id = output.id /\ v.body = "own"

SourcesHaveRows == sources \subseteq {k \in Sources : rows[k] # None}

\* Scripts that do not overlap
Apart ==
    ~together =>
        /\ pc \notin {"idle", "done"} => seeding = None /\ output = None
        /\ seeding # None => output = None

\* What the prune goes by
PruneIsRight ==
    /\ orphaned \cap referenced = {}
    /\ ~together /\ pc \in {"list", "delete"} =>
          referenced = {k \in Outputs : rows[k] # None}
    /\ ~together /\ pc = "delete" =>
          \A k \in Outputs : Latest(Target, k) # {} => k \in referenced \cup orphaned

\* What is about to be named is there, under its key too.
NamedIsLatest ==
    ~together =>
        /\ output # None => Latest(Target, output.key) # {}
        /\ \A k \in Keys : upserts[k] # None => Latest(Target, k) # {}

StoreInv ==
    /\ TypeOK /\ SealedIsOwn /\ IdsAreOwn /\ AtTarget /\ UpsertsAreSealed
    /\ InHand /\ PendingAreSources /\ FoundFits /\ OutputIsPut /\ SourcesHaveRows
    /\ Apart /\ PruneIsRight /\ NamedIsLatest /\ ReferencedKept /\ OrphansPruned

-----------------------------------------------------------------------------
(* The store *)

\* Who has something to do has a next source to do it to.
LEMMA SourceIsNext ==
    ASSUME TypeOK, todo # {}
    PROVE  Source \in todo /\ Source \in sources /\ Source \in Sources
<1> DEFINE D == {i \in DOMAIN Order : Order[i] \in todo}
<1>1. DOMAIN Order = 1..Len(Order) /\ Len(Order) \in Nat
  BY MarketAssumption
<1>2. D # {} /\ D \subseteq Nat
  BY <1>1 DEF TypeOK, Sources
<1> HIDE DEF D
<1>3. PICK i \in D : \A j \in D : <<j, i>> \notin OpToRel(<, Nat)
  BY <1>2, NatLessThanWellFounded, WFMin
<1>4. \A j \in D : i <= j
  <2>1. \A j \in D : ~(j < i)
    BY <1>2, <1>3 DEF OpToRel
  <2>2. QED
    BY <1>2, <2>1
<1>5. Order[i] \in todo /\ i \in DOMAIN Order
      /\ \A j \in DOMAIN Order : Order[j] \in todo => i <= j
  BY <1>3, <1>4 DEF D
<1>6. Source \in todo
  BY <1>5 DEF Source
<1>7. QED
  BY <1>6 DEF TypeOK

LEMMA CountOfObjects ==
    ASSUME IsFiniteSet(objects)
    PROVE  Cardinality(objects) \in Nat /\ Len(Order) \in Nat /\ NextId \in Nat \ {0}
           /\ Len(Order) < NextId
<1>1. Cardinality(objects) \in Nat
  BY FS_CardinalityType
<1>2. Len(Order) \in Nat
  BY MarketAssumption
<1>3. QED
  BY <1>1, <1>2 DEF NextId

LEMMA NewIs ==
    ASSUME TypeOK, IdsAreOwn, NextId <= MaxVersions,
           NEW k \in Keys, NEW body \in {"own", "deleted"}
    PROVE  /\ New(Target, k, body) \in Version
           /\ New(Target, k, body).bucket = Target /\ New(Target, k, body).key = k
           /\ New(Target, k, body).id = NextId /\ New(Target, k, body).body = body
           /\ New(Target, k, body).sealed = (body = "own")
           /\ NextId \in 1..MaxVersions
<1>1. NextId \in 1..MaxVersions /\ Target \in Buckets
  BY CountOfObjects, MarketAssumption DEF IdsAreOwn
<1>2. QED
  BY <1>1 DEF New, Version

\* What a put does to the store
LEMMA PutAdds ==
    ASSUME TypeOK, SealedIsOwn, IdsAreOwn,
           NEW k \in Keys, NEW body \in {"own", "deleted"}, Put(New(Target, k, body))
    PROVE  /\ objects' \subseteq Version /\ objects \subseteq objects'
           /\ New(Target, k, body) \in objects'
           /\ SealedIsOwn' /\ IdsAreOwn'
<1> DEFINE new == New(Target, k, body)
<1>1. /\ new \in Version /\ new.bucket = Target /\ new.key = k /\ new.id = NextId
      /\ new.body = body /\ new.sealed = (body = "own")
      /\ objects' = objects \cup {new}
  BY NewIs DEF Put
<1> HIDE DEF new
<1>2. /\ IsFiniteSet(objects) /\ NextId \in Nat /\ Cardinality(objects) \in Nat
      /\ \A v \in objects : v.id < NextId /\ v.id \in Nat
  BY CountOfObjects DEF IdsAreOwn, TypeOK, Version
<1>3. new \notin objects
  BY <1>1, <1>2
<1>4. IsFiniteSet(objects') /\ Cardinality(objects') = Cardinality(objects) + 1
  BY <1>1, <1>2, <1>3, FS_AddElement
<1>5. NextId' = NextId + 1
  BY <1>2, <1>4, CountOfObjects DEF NextId
<1>6. \A v \in objects' : v.id < NextId'
  BY <1>1, <1>2, <1>5
<1>7. \A v, w \in objects' : v.id = w.id => v = w
  BY <1>1, <1>2 DEF IdsAreOwn
<1>8. IdsAreOwn'
  BY <1>4, <1>6, <1>7 DEF IdsAreOwn
<1>9. SealedIsOwn'
  BY <1>1 DEF SealedIsOwn
<1>10. objects' \subseteq Version
  BY <1>1 DEF TypeOK
<1>11. QED
  BY <1>1, <1>8, <1>9, <1>10 DEF new

LEMMA PutIsLatest ==
    ASSUME TypeOK, IdsAreOwn,
           NEW k \in Keys, NEW body \in {"own", "deleted"}, Put(New(Target, k, body))
    PROVE  /\ \A b, j : b # Target \/ j # k => Latest(b, j)' = Latest(b, j)
           /\ body = "deleted" => Latest(Target, k)' = {}
           /\ body = "own" => Latest(Target, k)' # {}
<1> DEFINE new == New(Target, k, body)
<1>1. /\ new.bucket = Target /\ new.key = k /\ new.id = NextId /\ new.body = body
      /\ objects' = objects \cup {new}
  BY NewIs DEF Put
<1> HIDE DEF new
<1>2. NextId \in Nat /\ \A v \in objects : v.id < NextId /\ v.id \in Nat
  BY CountOfObjects DEF IdsAreOwn, TypeOK, Version
<1>3. ASSUME NEW b, NEW j, b # Target \/ j # k
      PROVE  Latest(b, j)' = Latest(b, j)
  <2>1. VersionsOf(b, j)' = VersionsOf(b, j)
    BY <1>1, <1>3 DEF VersionsOf
  <2>2. QED
    BY <2>1 DEF Latest
<1>4. VersionsOf(Target, k)' = VersionsOf(Target, k) \cup {new}
  BY <1>1 DEF VersionsOf
<1>5. \A v \in VersionsOf(Target, k) : v.id < new.id
  BY <1>1, <1>2 DEF VersionsOf
<1>6. ASSUME body = "deleted" PROVE Latest(Target, k)' = {}
  <2> SUFFICES ASSUME NEW v \in VersionsOf(Target, k)', v.body # "deleted",
                      \A w \in VersionsOf(Target, k)' : w.id <= v.id
               PROVE  FALSE
    BY DEF Latest
  <2>1. v \in VersionsOf(Target, k)
    BY <1>1, <1>4, <1>6
  <2>2. new.id <= v.id /\ v.id < new.id
    BY <1>4, <1>5, <2>1
  <2>3. v.id \in Nat /\ new.id \in Nat
    BY <1>1, <1>2, <2>1 DEF VersionsOf
  <2>4. QED
    BY <2>2, <2>3
<1>7. ASSUME body = "own" PROVE Latest(Target, k)' # {}
  <2>1. \A w \in VersionsOf(Target, k)' : w.id <= new.id
    BY <1>1, <1>2, <1>4, <1>5 DEF VersionsOf
  <2>2. new \in VersionsOf(Target, k)' /\ new.body # "deleted"
    BY <1>1, <1>4, <1>7
  <2>3. new \in Latest(Target, k)'
    BY <2>1, <2>2 DEF Latest
  <2>4. QED
    BY <2>3
<1>8. QED
  BY <1>3, <1>6, <1>7

\* A store that grows has what it had.
LEMMA SealedStay ==
    ASSUME objects \subseteq objects', NEW k, NEW place, SealedAt(k, place)
    PROVE  SealedAt(k, place)'
  BY DEF SealedAt

LEMMA StoreStands ==
    ASSUME objects' = objects
    PROVE  /\ \A b, k : Latest(b, k)' = Latest(b, k)
           /\ SealedIsOwn' = SealedIsOwn /\ IdsAreOwn' = IdsAreOwn
           /\ \A k, place : SealedAt(k, place)' = SealedAt(k, place)
<1>1. \A b, k : VersionsOf(b, k)' = VersionsOf(b, k)
  BY DEF VersionsOf
<1>2. QED
  BY <1>1 DEF Latest, SealedIsOwn, IdsAreOwn, SealedAt, NextId

LEMMA LatestAre ==
    ASSUME NEW b, NEW k, NEW v \in Latest(b, k)
    PROVE  v \in objects /\ v.bucket = b /\ v.key = k /\ v.body # "deleted"
  BY DEF Latest, VersionsOf
-----------------------------------------------------------------------------
(* The materialiser's steps *)

LEMMA LenOfFixtures == Len(Fixtures) \in Nat /\ Len(Fixtures) \in 0..Len(Fixtures)
  BY MarketAssumption

LEMMA SeededAreKeys == Seeded \subseteq Keys
  BY MarketAssumption DEF Seeded

LEMMA StartKeeps ==
    ASSUME StoreInv, Start
    PROVE  StoreInv'
<1> USE DEF StoreInv
<1>0. /\ \A b, k : Latest(b, k)' = Latest(b, k)
      /\ \A k, place : SealedAt(k, place)' = SealedAt(k, place)
      /\ SealedIsOwn' /\ IdsAreOwn'
  BY StoreStands DEF Start, MaterialiserFree, Apart, prune, normal, seeder, world
<1>1. TypeOK'
  BY <1>0 DEF Start, prune, normal, seeder, world, TypeOK, InHand, Normalising
<1>2. AtTarget' /\ SourcesHaveRows'
  BY <1>0 DEF Start, MaterialiserFree, Apart, prune, normal, seeder, world, AtTarget, SourcesHaveRows, TypeOK
<1>3. UpsertsAreSealed' /\ OutputIsPut'
  BY <1>0 DEF Start, MaterialiserFree, Apart, prune, normal, seeder, world, UpsertsAreSealed, OutputIsPut, TypeOK
<1>4. InHand' /\ PendingAreSources' /\ FoundFits'
  BY <1>0 DEF Start, MaterialiserFree, Apart, prune, normal, seeder, world, InHand, PendingAreSources, FoundFits, Normalising, Source, TypeOK
<1>5. Apart' /\ NamedIsLatest'
  BY <1>0 DEF Start, MaterialiserFree, Apart, prune, normal, seeder, world, Apart, NamedIsLatest, TypeOK
<1>6. PruneIsRight'
  BY <1>0 DEF Start, MaterialiserFree, Apart, prune, normal, seeder, world, PruneIsRight, InHand, TypeOK
<1>7. ReferencedKept' /\ OrphansPruned'
  BY <1>0 DEF Start, MaterialiserFree, Apart, prune, normal, seeder, world, ReferencedKept, OrphansPruned, TypeOK
<1>8. QED
  BY <1>0, <1>1, <1>2, <1>3, <1>4, <1>5, <1>6, <1>7

LEMMA ListKeeps ==
    ASSUME StoreInv, List
    PROVE  StoreInv'
<1> USE DEF StoreInv
<1>0. /\ \A b, k : Latest(b, k)' = Latest(b, k)
      /\ \A k, place : SealedAt(k, place)' = SealedAt(k, place)
      /\ SealedIsOwn' /\ IdsAreOwn'
  BY StoreStands DEF List, prune, normal, seeder, world
<1>1. TypeOK'
  BY <1>0 DEF List, prune, normal, seeder, world, TypeOK
<1>2. AtTarget' /\ SourcesHaveRows'
  BY <1>0 DEF List, prune, normal, seeder, world, AtTarget, SourcesHaveRows, TypeOK
<1>3. UpsertsAreSealed' /\ OutputIsPut'
  BY <1>0 DEF List, prune, normal, seeder, world, UpsertsAreSealed, OutputIsPut, TypeOK
<1>4. InHand' /\ PendingAreSources' /\ FoundFits'
  BY <1>0 DEF List, prune, normal, seeder, world, InHand, PendingAreSources, FoundFits, Normalising, Source, TypeOK
<1>5. Apart' /\ NamedIsLatest'
  BY <1>0 DEF List, prune, normal, seeder, world, Apart, NamedIsLatest, TypeOK
<1>6. PruneIsRight'
  BY <1>0 DEF List, prune, normal, seeder, world, PruneIsRight, InHand, TypeOK
<1>7. ReferencedKept' /\ OrphansPruned'
  BY <1>0 DEF List, prune, normal, seeder, world, ReferencedKept, OrphansPruned, TypeOK
<1>8. QED
  BY <1>0, <1>1, <1>2, <1>3, <1>4, <1>5, <1>6, <1>7

LEMMA LocateKeeps ==
    ASSUME StoreInv, Locate
    PROVE  StoreInv'
<1> USE DEF StoreInv
<1>0. /\ \A b, k : Latest(b, k)' = Latest(b, k)
      /\ \A k, place : SealedAt(k, place)' = SealedAt(k, place)
      /\ SealedIsOwn' /\ IdsAreOwn'
  BY StoreStands DEF Locate, Stop, Done, prune, normal, seeder, world
<1>1. TypeOK'
  <2>1. /\ pc' \in {"idle", "locate", "bind", "rewrite"}
        /\ todo' \subseteq todo /\ pending' \in {pending, Unwritten}
    BY DEF Locate, Stop, Done
  <2>2. found' \in {None} \cup objects
    BY LatestAre DEF Locate, Stop, Done, Copies, Exactly, VersionsOf
  <2>3. Unwritten \in [Keys -> {None} \cup Place]
    BY DEF Unwritten
  <2>4. referenced' \subseteq referenced /\ orphaned' \subseteq orphaned
    BY DEF Locate, Stop, Done, prune
  <2>5. QED
    BY <2>1, <2>2, <2>3, <2>4 DEF Locate, seeder, world, TypeOK
<1>2. AtTarget' /\ SourcesHaveRows'
  BY <1>0 DEF Locate, Stop, Done, prune, normal, seeder, world, AtTarget, SourcesHaveRows, TypeOK
<1>3. UpsertsAreSealed' /\ OutputIsPut'
  BY <1>0 DEF Locate, Stop, Done, prune, normal, seeder, world, UpsertsAreSealed, OutputIsPut, TypeOK
<1>4. InHand' /\ PendingAreSources' /\ FoundFits'
  <2>1. todo # {} /\ Source \in todo
    BY SourceIsNext DEF Locate
  <2>2. CASE Stop("idle") /\ UNCHANGED sources
    BY <2>2 DEF Stop, InHand, PendingAreSources, FoundFits, Normalising, Unwritten
  <2>3. CASE Done(pending) /\ UNCHANGED <<prune, sources>>
    BY <2>3 DEF Done, InHand, PendingAreSources, FoundFits, Normalising, prune, Locate
  <2>4. ASSUME NEW v \in Copies(rows[Source]), found' = v,
               \/ v.sealed /\ pc' = "bind"
               \/ v.body = "own" /\ pc' = "rewrite",
               UNCHANGED <<prune, todo, pending, sources>>
        PROVE  InHand' /\ PendingAreSources' /\ FoundFits'
    <3>1. v \in objects /\ v.key = Source
      BY LatestAre DEF Copies, Exactly, VersionsOf
    <3>2. Source' = Source
      BY <2>4 DEF Source
    <3>3. FoundFits'
      BY <2>1, <2>4, <3>1, <3>2, <1>0 DEF FoundFits, Locate
    <3>4. QED
      BY <2>4, <3>3 DEF InHand, PendingAreSources, Normalising, prune, Locate
  <2>5. QED
    BY <2>2, <2>3, <2>4 DEF Locate
<1>5. Apart' /\ NamedIsLatest'
  BY <1>0 DEF Locate, Stop, Done, prune, normal, seeder, world, Apart, NamedIsLatest, TypeOK
<1>6. PruneIsRight'
  BY <1>0 DEF Locate, Stop, Done, prune, normal, seeder, world, PruneIsRight, InHand, TypeOK
<1>7. ReferencedKept' /\ OrphansPruned'
  BY <1>0 DEF Locate, Stop, Done, prune, normal, seeder, world, ReferencedKept, OrphansPruned, TypeOK
<1>8. QED
  BY <1>0, <1>1, <1>2, <1>3, <1>4, <1>5, <1>6, <1>7

LEMMA BindKeeps ==
    ASSUME StoreInv, Bind
    PROVE  StoreInv'
<1> USE DEF StoreInv
<1>0. /\ \A b, k : Latest(b, k)' = Latest(b, k)
      /\ \A k, place : SealedAt(k, place)' = SealedAt(k, place)
      /\ SealedIsOwn' /\ IdsAreOwn'
  BY StoreStands DEF Bind, Done, prune, normal, seeder, world
<1>1. TypeOK'
  <2>1. found.id \in 1..MaxVersions /\ Source \in Keys
    BY SourceIsNext DEF Bind, FoundFits, TypeOK, Version, Keys
  <2>2. [bucket |-> Target, id |-> found.id] \in Place
    BY <2>1, MarketAssumption DEF Place
  <2>3. pending' \in [Keys -> {None} \cup Place]
    BY <2>2 DEF Bind, Done, TypeOK
  <2>4. QED
    BY <2>3 DEF Bind, Done, prune, seeder, world, TypeOK
<1>2. AtTarget' /\ SourcesHaveRows'
  BY <1>0 DEF Bind, Done, prune, normal, seeder, world, AtTarget, SourcesHaveRows, TypeOK
<1>3. UpsertsAreSealed' /\ OutputIsPut'
  BY <1>0 DEF Bind, Done, prune, normal, seeder, world, UpsertsAreSealed, OutputIsPut, TypeOK
<1>4. InHand' /\ PendingAreSources' /\ FoundFits'
  <2>1. Source \in todo /\ Source \in sources
    BY SourceIsNext DEF Bind, FoundFits
  <2>2. \A k \in Keys : pending'[k] # None => k = Source \/ pending[k] # None
    BY DEF Bind, Done, TypeOK
  <2>3. PendingAreSources'
    BY <2>1, <2>2 DEF Bind, Done, PendingAreSources, Normalising
  <2>4. QED
    BY <2>3 DEF Bind, Done, InHand, FoundFits, Normalising, prune
<1>5. Apart' /\ NamedIsLatest'
  BY <1>0 DEF Bind, Done, prune, normal, seeder, world, Apart, NamedIsLatest, TypeOK
<1>6. PruneIsRight'
  BY <1>0 DEF Bind, Done, prune, normal, seeder, world, PruneIsRight, InHand, TypeOK
<1>7. ReferencedKept' /\ OrphansPruned'
  BY <1>0 DEF Bind, Done, prune, normal, seeder, world, ReferencedKept, OrphansPruned, TypeOK
<1>8. QED
  BY <1>0, <1>1, <1>2, <1>3, <1>4, <1>5, <1>6, <1>7

LEMMA CommitKeeps ==
    ASSUME StoreInv, Commit
    PROVE  StoreInv'
<1> USE DEF StoreInv
<1>0. /\ \A b, k : Latest(b, k)' = Latest(b, k)
      /\ \A k, place : SealedAt(k, place)' = SealedAt(k, place)
      /\ SealedIsOwn' /\ IdsAreOwn'
  BY StoreStands DEF Commit, Stop, Written, Unwritten, prune, normal, seeder, world
<1>rows. \A k \in Keys : rows'[k] = IF pending[k] = None THEN rows[k] ELSE pending[k]
  BY DEF Commit, Written
<1>1. TypeOK'
  BY <1>0 DEF Commit, Stop, Written, Unwritten, prune, normal, seeder, world, TypeOK
<1>2. AtTarget' /\ SourcesHaveRows'
  <2>1. \A k \in Keys : pending[k] # None => pending[k].bucket = Target
    BY DEF PendingAreSources
  <2>2. AtTarget'
    BY <1>rows, <2>1, SeededAreKeys DEF AtTarget, Keys
  <2>3. SourcesHaveRows'
    BY <1>rows DEF SourcesHaveRows, Commit, Keys, TypeOK
  <2>4. QED
    BY <2>2, <2>3
<1>3. UpsertsAreSealed' /\ OutputIsPut'
  BY <1>0 DEF Commit, Stop, Written, Unwritten, prune, normal, seeder, world, UpsertsAreSealed, OutputIsPut, TypeOK
<1>4. InHand' /\ PendingAreSources' /\ FoundFits'
  BY <1>0 DEF Commit, Stop, Written, Unwritten, prune, normal, seeder, world, InHand, PendingAreSources, FoundFits, Normalising, Source, TypeOK
<1>5. Apart' /\ NamedIsLatest'
  BY <1>0 DEF Commit, Stop, Written, Unwritten, prune, normal, seeder, world, Apart, NamedIsLatest, TypeOK
<1>6. PruneIsRight'
  BY <1>0 DEF Commit, Stop, Written, Unwritten, prune, normal, seeder, world, PruneIsRight, InHand, TypeOK
<1>7. ReferencedKept' /\ OrphansPruned'
  <2>1. \A k \in Outputs : rows'[k] = rows[k]
    BY <1>rows, MarketAssumption DEF PendingAreSources, Keys, TypeOK
  <2>2. QED
    BY <1>0, <2>1 DEF ReferencedKept, OrphansPruned, Commit, Stop, world
<1>8. QED
  BY <1>0, <1>1, <1>2, <1>3, <1>4, <1>5, <1>6, <1>7

LEMMA SeedStartKeeps ==
    ASSUME StoreInv, SeedStart
    PROVE  StoreInv'
<1> USE DEF StoreInv
<1>0. /\ \A b, k : Latest(b, k)' = Latest(b, k)
      /\ \A k, place : SealedAt(k, place)' = SealedAt(k, place)
      /\ SealedIsOwn' /\ IdsAreOwn'
  BY StoreStands DEF SeedStart, SeederFree, prune, normal, seeder, world
<1>1. TypeOK'
  BY <1>0 DEF SeedStart, SeederFree, prune, normal, seeder, world, TypeOK
<1>2. AtTarget' /\ SourcesHaveRows'
  BY <1>0 DEF SeedStart, SeederFree, prune, normal, seeder, world, AtTarget, SourcesHaveRows, TypeOK
<1>3. UpsertsAreSealed' /\ OutputIsPut'
  BY <1>0 DEF SeedStart, SeederFree, prune, normal, seeder, world, UpsertsAreSealed, OutputIsPut, TypeOK
<1>4. InHand' /\ PendingAreSources' /\ FoundFits'
  BY <1>0 DEF SeedStart, SeederFree, prune, normal, seeder, world, InHand, PendingAreSources, FoundFits, Normalising, Source, TypeOK
<1>5. Apart' /\ NamedIsLatest'
  BY <1>0 DEF SeedStart, SeederFree, prune, normal, seeder, world, Apart, NamedIsLatest, TypeOK
<1>6. PruneIsRight'
  BY <1>0 DEF SeedStart, SeederFree, prune, normal, seeder, world, PruneIsRight, InHand, TypeOK
<1>7. ReferencedKept' /\ OrphansPruned'
  BY <1>0 DEF SeedStart, SeederFree, prune, normal, seeder, world, ReferencedKept, OrphansPruned, TypeOK
<1>8. QED
  BY <1>0, <1>1, <1>2, <1>3, <1>4, <1>5, <1>6, <1>7

LEMMA SeedCommitKeeps ==
    ASSUME StoreInv, SeedCommit
    PROVE  StoreInv'
<1> USE DEF StoreInv
<1>0. /\ \A b, k : Latest(b, k)' = Latest(b, k)
      /\ \A k, place : SealedAt(k, place)' = SealedAt(k, place)
      /\ SealedIsOwn' /\ IdsAreOwn'
  BY StoreStands DEF SeedCommit, Written, Unwritten, prune, normal, seeder, world
<1>rows. \A k \in Keys : rows'[k] = IF upserts[k] = None THEN rows[k] ELSE upserts[k]
  BY DEF SeedCommit, Written
<1>1. TypeOK'
  BY <1>0 DEF SeedCommit, Written, Unwritten, prune, normal, seeder, world, TypeOK
<1>2. AtTarget' /\ SourcesHaveRows'
  <2>1. AtTarget'
    BY <1>rows, SeededAreKeys DEF AtTarget, UpsertsAreSealed, Keys
  <2>2. SourcesHaveRows'
    BY <1>rows DEF SourcesHaveRows, SeedCommit, Keys, normal
  <2>3. QED
    BY <2>1, <2>2
<1>3. UpsertsAreSealed' /\ OutputIsPut'
  BY <1>0 DEF SeedCommit, Written, Unwritten, prune, normal, seeder, world, UpsertsAreSealed, OutputIsPut, TypeOK
<1>4. InHand' /\ PendingAreSources' /\ FoundFits'
  BY <1>0 DEF SeedCommit, Written, Unwritten, prune, normal, seeder, world, InHand, PendingAreSources, FoundFits, Normalising, Source, TypeOK
<1>5. Apart' /\ NamedIsLatest'
  BY <1>0 DEF SeedCommit, Written, Unwritten, prune, normal, seeder, world, Apart, NamedIsLatest, TypeOK
<1>6. PruneIsRight'
  <2>1. seeding # None
    BY NoneAssumption, LenOfFixtures DEF SeedCommit
  <2>2. ~together => pc \in {"idle", "done"}
    BY <2>1 DEF Apart, TypeOK
  <2>3. QED
    BY <2>2 DEF PruneIsRight, SeedCommit, prune, world
<1>7. ReferencedKept' /\ OrphansPruned'
  <2>1. seeding # None
    BY NoneAssumption, LenOfFixtures DEF SeedCommit
  <2>2. ~together => pc \in {"idle", "done"}
    BY <2>1 DEF Apart, TypeOK
  <2>3. OrphansPruned'
    BY <2>2 DEF OrphansPruned, SeedCommit, world
  <2>4. ReferencedKept'
    BY <1>0, <1>rows DEF ReferencedKept, NamedIsLatest, UpsertsAreSealed, SeedCommit, world, Keys
  <2>5. QED
    BY <2>3, <2>4
<1>8. QED
  BY <1>0, <1>1, <1>2, <1>3, <1>4, <1>5, <1>6, <1>7

LEMMA RecordKeeps ==
    ASSUME StoreInv, PipelineRecord
    PROVE  StoreInv'
<1> USE DEF StoreInv
<1>0. /\ \A b, k : Latest(b, k)' = Latest(b, k)
      /\ \A k, place : SealedAt(k, place)' = SealedAt(k, place)
      /\ SealedIsOwn' /\ IdsAreOwn'
  BY StoreStands DEF PipelineRecord, prune, normal, seeder, world
<1>rows. /\ output \in Recording /\ output.key \in Outputs /\ output.key \in Keys
         /\ \A k \in Keys \ {output.key} : rows'[k] = rows[k]
         /\ rows'[output.key] = [bucket |-> Target, id |-> output.id]
         /\ rows'[output.key] \in Place /\ rows'[output.key] # None
         /\ rows' \in [Keys -> {None} \cup Place]
  <2>1. output \in Recording
    BY DEF TypeOK, PipelineRecord
  <2>2. output.key \in Outputs /\ output.id \in 1..MaxVersions
    BY <2>1 DEF Recording
  <2>3. [bucket |-> Target, id |-> output.id] \in Place
    BY <2>2, MarketAssumption DEF Place
  <2>4. QED
    BY <2>1, <2>2, <2>3, NoneAssumption DEF PipelineRecord, TypeOK, Keys
<1>1. TypeOK'
  BY <1>rows DEF TypeOK, PipelineRecord, prune, normal, seeder, world
<1>2. AtTarget' /\ SourcesHaveRows'
  <2>1. AtTarget'
    BY <1>rows, SeededAreKeys DEF AtTarget, Keys
  <2>2. SourcesHaveRows'
    BY <1>rows DEF SourcesHaveRows, PipelineRecord, Keys, normal
  <2>3. QED
    BY <2>1, <2>2
<1>3. UpsertsAreSealed' /\ OutputIsPut'
  BY <1>0 DEF PipelineRecord, prune, normal, seeder, world, UpsertsAreSealed, OutputIsPut, TypeOK
<1>4. InHand' /\ PendingAreSources' /\ FoundFits'
  BY <1>0 DEF PipelineRecord, prune, normal, seeder, world, InHand, PendingAreSources, FoundFits, Normalising, Source, TypeOK
<1>5. Apart' /\ NamedIsLatest'
  BY <1>0 DEF PipelineRecord, prune, normal, seeder, world, Apart, NamedIsLatest, TypeOK
<1>6. PruneIsRight'
  <2>1. ~together => pc \in {"idle", "done"}
    BY DEF Apart, PipelineRecord
  <2>2. QED
    BY <2>1 DEF PruneIsRight, PipelineRecord, prune, world
<1>7. ReferencedKept' /\ OrphansPruned'
  <2>1. ~together => pc \in {"idle", "done"}
    BY DEF Apart, PipelineRecord
  <2>2. OrphansPruned'
    BY <2>1 DEF OrphansPruned, PipelineRecord, world
  <2>3. ReferencedKept'
    BY <1>0, <1>rows DEF ReferencedKept, NamedIsLatest, PipelineRecord, world, Keys
  <2>4. QED
    BY <2>2, <2>3
<1>8. QED
  BY <1>0, <1>1, <1>2, <1>3, <1>4, <1>5, <1>6, <1>7

LEMMA CrashKeeps ==
    ASSUME StoreInv, Crash
    PROVE  StoreInv'
<1> USE DEF StoreInv
<1>0. /\ \A b, k : Latest(b, k)' = Latest(b, k)
      /\ \A k, place : SealedAt(k, place)' = SealedAt(k, place)
      /\ SealedIsOwn' /\ IdsAreOwn'
  BY StoreStands DEF Crash, Stop, Unwritten, prune, normal, seeder, world
<1>1. TypeOK'
  <2>1. crashes' \in 0..MaxCrashes
    BY MarketAssumption DEF Crash, TypeOK
  <2>2. Unwritten \in [Keys -> {None} \cup Place]
    BY DEF Unwritten
  <2>3. CASE Stop("idle") /\ UNCHANGED <<seeder, output>>
    BY <2>1, <2>2, <2>3 DEF Crash, Stop, seeder, TypeOK
  <2>4. CASE seeding' = None /\ upserts' = Unwritten
             /\ UNCHANGED <<pc, prune, todo, found, pending, output>>
    BY <2>1, <2>2, <2>4 DEF Crash, prune, TypeOK
  <2>5. CASE output' = None /\ UNCHANGED <<pc, prune, todo, found, pending, seeder>>
    BY <2>1, <2>5 DEF Crash, prune, seeder, TypeOK
  <2>6. QED
    BY <2>3, <2>4, <2>5 DEF Crash
<1>2. AtTarget' /\ SourcesHaveRows'
  BY <1>0 DEF Crash, Stop, Unwritten, prune, normal, seeder, world, AtTarget, SourcesHaveRows, TypeOK
<1>3. UpsertsAreSealed' /\ OutputIsPut'
  BY <1>0 DEF Crash, Stop, Unwritten, prune, normal, seeder, world, UpsertsAreSealed, OutputIsPut, TypeOK
<1>4. InHand' /\ PendingAreSources' /\ FoundFits'
  BY <1>0 DEF Crash, Stop, Unwritten, prune, normal, seeder, world, InHand, PendingAreSources, FoundFits, Normalising, Source, TypeOK
<1>5. Apart' /\ NamedIsLatest'
  BY <1>0 DEF Crash, Stop, Unwritten, prune, normal, seeder, world, Apart, NamedIsLatest, TypeOK
<1>6. PruneIsRight'
  BY <1>0 DEF Crash, Stop, Unwritten, prune, normal, seeder, world, PruneIsRight, InHand, TypeOK
<1>7. ReferencedKept' /\ OrphansPruned'
  BY <1>0 DEF Crash, Stop, Unwritten, prune, normal, seeder, world, ReferencedKept, OrphansPruned, TypeOK
<1>8. QED
  BY <1>0, <1>1, <1>2, <1>3, <1>4, <1>5, <1>6, <1>7

-----------------------------------------------------------------------------
(* The steps that put versions *)

\* The prune's markers are put under keys of outputs no row named, and every
\* version stays: what the scripts found or put is still there.
LEMMA DeleteKeeps ==
    ASSUME StoreInv, Delete
    PROVE  StoreInv'
<1> USE DEF StoreInv
<1>1. CASE orphaned = {}
  <2>0. /\ objects' = objects /\ rows' = rows /\ pc' = "locate" /\ todo' = sources
        /\ pc = "delete" /\ orphaned' = {}
        /\ UNCHANGED <<referenced, sources, found, pending, seeder, output, world>>
    BY <1>1 DEF Delete
  <2>1. /\ \A b, k : Latest(b, k)' = Latest(b, k)
        /\ \A k, place : SealedAt(k, place)' = SealedAt(k, place)
        /\ SealedIsOwn' /\ IdsAreOwn'
    BY <2>0, StoreStands
  <2>2. TypeOK' /\ AtTarget' /\ SourcesHaveRows'
    BY <2>0 DEF TypeOK, AtTarget, SourcesHaveRows, seeder, world
  <2>3. UpsertsAreSealed' /\ OutputIsPut' /\ InHand' /\ FoundFits'
    BY <2>0, <2>1 DEF UpsertsAreSealed, OutputIsPut, InHand, FoundFits, Normalising, seeder
  <2>4. PendingAreSources'
    BY <2>0 DEF PendingAreSources, Normalising
  <2>5. Apart' /\ NamedIsLatest' /\ PruneIsRight' /\ ReferencedKept'
    BY <2>0, <2>1 DEF Apart, NamedIsLatest, PruneIsRight, ReferencedKept, seeder, world
  <2>6. OrphansPruned'
    BY <1>1, <2>0, <2>1 DEF OrphansPruned, PruneIsRight, world
  <2>7. QED
    BY <2>1, <2>2, <2>3, <2>4, <2>5, <2>6
<1>2. CASE orphaned # {}
  <2>1. PICK k \in orphaned : Put(New(Target, k, "deleted")) /\ orphaned' = orphaned \ {k}
    BY <1>2 DEF Delete
  <2>2. /\ rows' = rows /\ pc' = pc /\ todo' = todo /\ pc = "delete"
        /\ UNCHANGED <<referenced, sources, found, pending, seeder, output, world>>
    BY <1>2 DEF Delete
  <2>3. k \in Outputs /\ k \in Keys
    BY DEF TypeOK, Keys
  <2>4. /\ objects' \subseteq Version /\ objects \subseteq objects'
        /\ SealedIsOwn' /\ IdsAreOwn'
    BY <2>1, <2>3, PutAdds
  <2>5. /\ \A b, j : b # Target \/ j # k => Latest(b, j)' = Latest(b, j)
        /\ Latest(Target, k)' = {}
    BY <2>1, <2>3, PutIsLatest
  <2>6. TypeOK' /\ AtTarget' /\ SourcesHaveRows'
    BY <2>1, <2>2, <2>4 DEF TypeOK, AtTarget, SourcesHaveRows, seeder, world
  <2>7. UpsertsAreSealed'
    BY <2>2, <2>4, SealedStay DEF UpsertsAreSealed, seeder
  <2>8. OutputIsPut' /\ InHand' /\ FoundFits' /\ PendingAreSources'
    BY <2>1, <2>2, <2>4
       DEF OutputIsPut, InHand, FoundFits, PendingAreSources, Normalising
  <2>9. Apart' /\ PruneIsRight'
    <3>1. Apart' /\ orphaned' \cap referenced' = {}
      BY <2>1, <2>2 DEF Apart, PruneIsRight, seeder, world
    <3>2. ~together /\ pc' \in {"list", "delete"} =>
             referenced' = {j \in Outputs : rows'[j] # None}
      BY <2>2 DEF PruneIsRight
    <3>3. ~together => \A j \in Outputs : Latest(Target, j)' # {} =>
                          j \in referenced' \cup orphaned'
      BY <2>1, <2>2, <2>5 DEF PruneIsRight
    <3>4. QED
      BY <2>2, <3>1, <3>2, <3>3 DEF PruneIsRight, world
  <2>10. ~together => seeding = None /\ output = None
    BY <2>2 DEF Apart
  <2>11. NamedIsLatest'
    BY <2>2, <2>10 DEF NamedIsLatest, UpsertsAreSealed, seeder, world
  <2>12. ReferencedKept' /\ OrphansPruned'
    <3>1. ~together => rows[k] = None
      BY <2>2, <2>3 DEF PruneIsRight
    <3>2. QED
      BY <2>2, <2>5, <3>1 DEF ReferencedKept, OrphansPruned, world
  <2>13. QED
    BY <2>4, <2>6, <2>7, <2>8, <2>9, <2>11, <2>12
<1>3. QED
  BY <1>1, <1>2

\* A put of the row's own bytes takes nothing away.
LEMMA OwnPutKeeps ==
    ASSUME StoreInv, NEW k \in Keys, Put(New(Target, k, "own")), UNCHANGED <<rows, together>>
    PROVE  /\ objects' \subseteq Version /\ objects \subseteq objects'
           /\ New(Target, k, "own") \in objects' /\ SealedIsOwn' /\ IdsAreOwn'
           /\ New(Target, k, "own").bucket = Target /\ New(Target, k, "own").key = k
           /\ New(Target, k, "own").id = NextId /\ New(Target, k, "own").body = "own"
           /\ New(Target, k, "own").sealed /\ NextId \in 1..MaxVersions
           /\ AtTarget' /\ ReferencedKept'
           /\ Latest(Target, k)' # {}
           /\ \A b, j : Latest(b, j) # {} => Latest(b, j)' # {}
           /\ \A j : j # k => Latest(Target, j)' = Latest(Target, j)
<1> USE DEF StoreInv
<1>1. /\ objects' \subseteq Version /\ objects \subseteq objects'
      /\ New(Target, k, "own") \in objects' /\ SealedIsOwn' /\ IdsAreOwn'
  BY PutAdds
<1>2. /\ \A b, j : b # Target \/ j # k => Latest(b, j)' = Latest(b, j)
      /\ Latest(Target, k)' # {}
  BY PutIsLatest
<1>3. /\ New(Target, k, "own").bucket = Target /\ New(Target, k, "own").key = k
      /\ New(Target, k, "own").id = NextId /\ New(Target, k, "own").body = "own"
      /\ New(Target, k, "own").sealed /\ NextId \in 1..MaxVersions
  BY NewIs DEF Put
<1>4. \A b, j : Latest(b, j) # {} => Latest(b, j)' # {}
  BY <1>2
<1>5. AtTarget' /\ ReferencedKept'
  BY <1>4 DEF AtTarget, ReferencedKept
<1>6. QED
  BY <1>1, <1>2, <1>3, <1>4, <1>5

LEMMA RewriteKeeps ==
    ASSUME StoreInv, Rewrite
    PROVE  StoreInv'
<1> USE DEF StoreInv
<1>1. Source \in todo /\ Source \in Sources /\ Source \in Keys /\ found.body = "own"
  BY SourceIsNext DEF Rewrite, FoundFits, Keys
<1>2. /\ Put(New(Target, Source, "own")) /\ found' = New(Target, Source, "own")
      /\ pc = "rewrite" /\ pc' = "bind"
      /\ UNCHANGED <<rows, prune, sources, todo, pending, seeder, output, world>>
  BY <1>1 DEF Rewrite
<1>3. rows' = rows /\ together' = together
  BY <1>2 DEF world
<1>4. /\ objects' \subseteq Version /\ objects \subseteq objects'
      /\ New(Target, Source, "own") \in objects' /\ SealedIsOwn' /\ IdsAreOwn'
      /\ New(Target, Source, "own").key = Source /\ New(Target, Source, "own").sealed
      /\ AtTarget' /\ ReferencedKept'
      /\ \A b, j : Latest(b, j) # {} => Latest(b, j)' # {}
      /\ \A j : j # Source => Latest(Target, j)' = Latest(Target, j)
  BY <1>1, <1>2, <1>3, OwnPutKeeps
<1>5. TypeOK' /\ SourcesHaveRows'
  BY <1>2, <1>4 DEF TypeOK, SourcesHaveRows, prune, seeder, world
<1>6. UpsertsAreSealed'
  BY <1>2, <1>4, SealedStay DEF UpsertsAreSealed, seeder
<1>7. OutputIsPut' /\ InHand' /\ PendingAreSources'
  BY <1>2, <1>4 DEF OutputIsPut, InHand, PendingAreSources, Normalising, prune
<1>8. FoundFits'
  <2>1. Source' = Source
    BY <1>2 DEF Source
  <2>2. QED
    BY <1>1, <1>2, <1>4, <2>1 DEF FoundFits
<1>9. Apart' /\ PruneIsRight' /\ NamedIsLatest'
  BY <1>2, <1>4 DEF Apart, PruneIsRight, NamedIsLatest, prune, seeder, world
<1>10. OrphansPruned'
  <2>1. Source \notin Outputs
    BY <1>1, MarketAssumption
  <2>2. QED
    BY <1>2, <1>4, <2>1 DEF OrphansPruned, world
<1>11. QED
  BY <1>4, <1>5, <1>6, <1>7, <1>8, <1>9, <1>10

LEMMA PipelinePutKeeps ==
    ASSUME StoreInv, NEW k \in Outputs \ Seeded, PipelinePut(k)
    PROVE  StoreInv'
<1> USE DEF StoreInv
<1>1. /\ k \in Outputs /\ k \in Keys /\ output = None /\ rows[k] = None /\ PipelineFree
      /\ Put(New(Target, k, "own")) /\ output' = [key |-> k, id |-> NextId]
      /\ UNCHANGED <<rows, pc, prune, normal, seeder, world>>
  BY DEF PipelinePut, Keys
<1>2. rows' = rows /\ together' = together
  BY <1>1 DEF world
<1>3. /\ objects' \subseteq Version /\ objects \subseteq objects'
      /\ New(Target, k, "own") \in objects' /\ SealedIsOwn' /\ IdsAreOwn'
      /\ New(Target, k, "own").bucket = Target /\ New(Target, k, "own").key = k
      /\ New(Target, k, "own").id = NextId /\ New(Target, k, "own").body = "own"
      /\ NextId \in 1..MaxVersions
      /\ AtTarget' /\ ReferencedKept'
      /\ Latest(Target, k)' # {}
      /\ \A b, j : Latest(b, j) # {} => Latest(b, j)' # {}
  BY <1>1, <1>2, OwnPutKeeps
<1>4. output' \in Recording /\ output'.key = k /\ output'.id = NextId
  BY <1>1, <1>3 DEF Recording
<1>5. TypeOK' /\ SourcesHaveRows'
  BY <1>1, <1>3, <1>4 DEF TypeOK, SourcesHaveRows, prune, normal, seeder, world
<1>6. UpsertsAreSealed'
  BY <1>1, <1>3, SealedStay DEF UpsertsAreSealed, seeder
<1>7. InHand' /\ PendingAreSources' /\ FoundFits'
  BY <1>1, <1>3 DEF InHand, PendingAreSources, FoundFits, Normalising, Source, prune, normal
<1>8. OutputIsPut'
  BY <1>3, <1>4 DEF OutputIsPut
<1>9. ~together => pc \in {"idle", "done"} /\ seeding = None
  BY <1>1 DEF PipelineFree
<1>10. Apart' /\ PruneIsRight' /\ OrphansPruned'
  BY <1>1, <1>9 DEF Apart, PruneIsRight, OrphansPruned, prune, seeder, world
<1>11. NamedIsLatest'
  BY <1>1, <1>3, <1>4 DEF NamedIsLatest, seeder, world
<1>12. QED
  BY <1>3, <1>5, <1>6, <1>7, <1>8, <1>10, <1>11

\* The fixture in hand gets a sealed version, found or put, in the configured
\* bucket, which is the one its row has.
LEMMA FixtureIsSealed ==
    ASSUME StoreInv, SeedFixture
    PROVE  \E k \in Seeded : \E v \in objects' :
              /\ v.bucket = Target /\ v.key = k /\ v.sealed /\ v.id \in 1..MaxVersions
              /\ upserts' = [upserts EXCEPT ![k] = [bucket |-> Target, id |-> v.id]]
              /\ \/ objects' = objects /\ v \in Latest(Target, k)
                 \/ Put(New(Target, k, "own"))
<1> USE DEF StoreInv
<1> DEFINE k == Fixtures[seeding + 1]
           kept == {v \in Latest(Target, k) : v.sealed}
           bucket == IF rows[k] = None THEN Target ELSE rows[k].bucket
<1>1. k \in Seeded /\ k \in Keys
  BY MarketAssumption, SeededAreKeys DEF SeedFixture, Seeded
<1>2. bucket = Target
  BY <1>1 DEF AtTarget
<1>3. \/ \E v \in kept : /\ upserts' = [upserts EXCEPT ![k] = [bucket |-> bucket, id |-> v.id]]
                         /\ UNCHANGED objects
      \/ /\ Put(New(Target, k, "own"))
         /\ upserts' = [upserts EXCEPT ![k] =
                           [bucket |-> bucket, id |-> New(Target, k, "own").id]]
  BY DEF SeedFixture
<1> HIDE DEF k, bucket
<1>4. CASE \E v \in kept : /\ upserts' = [upserts EXCEPT ![k] = [bucket |-> bucket, id |-> v.id]]
                           /\ UNCHANGED objects
  <2>1. PICK v \in kept : /\ upserts' = [upserts EXCEPT ![k] = [bucket |-> Target, id |-> v.id]]
                          /\ objects' = objects
    BY <1>2, <1>4
  <2>2. v \in objects /\ v.bucket = Target /\ v.key = k /\ v.sealed
    BY LatestAre
  <2>3. v.id \in 1..MaxVersions
    BY <2>2 DEF TypeOK, Version
  <2>4. QED
    BY <1>1, <2>1, <2>2, <2>3
<1>5. CASE /\ Put(New(Target, k, "own"))
           /\ upserts' = [upserts EXCEPT ![k] =
                             [bucket |-> bucket, id |-> New(Target, k, "own").id]]
  <2>1. New(Target, k, "own") \in objects'
    BY <1>1, <1>5, PutAdds
  <2>2. /\ New(Target, k, "own").bucket = Target /\ New(Target, k, "own").key = k
        /\ New(Target, k, "own").sealed /\ New(Target, k, "own").id \in 1..MaxVersions
    BY <1>1, <1>5, NewIs DEF Put
  <2>3. QED
    BY <1>1, <1>2, <1>5, <2>1, <2>2
<1>6. QED
  BY <1>3, <1>4, <1>5

LEMMA SeedFixtureKeeps ==
    ASSUME StoreInv, SeedFixture
    PROVE  StoreInv'
<1> USE DEF StoreInv
<1>1. PICK k \in Seeded : \E v \in objects' :
              /\ v.bucket = Target /\ v.key = k /\ v.sealed /\ v.id \in 1..MaxVersions
              /\ upserts' = [upserts EXCEPT ![k] = [bucket |-> Target, id |-> v.id]]
              /\ \/ objects' = objects /\ v \in Latest(Target, k)
                 \/ Put(New(Target, k, "own"))
  BY FixtureIsSealed
<1>2. PICK v \in objects' :
              /\ v.bucket = Target /\ v.key = k /\ v.sealed /\ v.id \in 1..MaxVersions
              /\ upserts' = [upserts EXCEPT ![k] = [bucket |-> Target, id |-> v.id]]
              /\ \/ objects' = objects /\ v \in Latest(Target, k)
                 \/ Put(New(Target, k, "own"))
  BY <1>1
<1>3. /\ seeding \in 0..(Len(Fixtures) - 1) /\ seeding' = seeding + 1
      /\ seeding' \in 0..Len(Fixtures) /\ seeding # None /\ seeding' # None
      /\ UNCHANGED <<rows, pc, prune, normal, output, world>>
  BY LenOfFixtures, NoneAssumption DEF SeedFixture
<1>4. rows' = rows /\ together' = together /\ k \in Keys
  BY <1>3, SeededAreKeys DEF world
<1>5. /\ objects' \subseteq Version /\ objects \subseteq objects'
      /\ SealedIsOwn' /\ IdsAreOwn' /\ AtTarget' /\ ReferencedKept'
      /\ Latest(Target, k)' # {}
      /\ \A b, j : Latest(b, j) # {} => Latest(b, j)' # {}
  <2>1. CASE objects' = objects /\ v \in Latest(Target, k)
    <3>1. \A b, j : Latest(b, j)' = Latest(b, j)
      BY <2>1, StoreStands
    <3>2. SealedIsOwn' /\ IdsAreOwn'
      BY <2>1, StoreStands
    <3>3. AtTarget' /\ ReferencedKept'
      BY <1>4, <3>1 DEF AtTarget, ReferencedKept
    <3>4. QED
      BY <2>1, <3>1, <3>2, <3>3 DEF TypeOK
  <2>2. CASE Put(New(Target, k, "own"))
    BY <1>4, <2>2, OwnPutKeeps
  <2>3. QED
    BY <1>2, <2>1, <2>2
<1>6. /\ [bucket |-> Target, id |-> v.id] \in Place
      /\ upserts' \in [Keys -> {None} \cup Place]
      /\ upserts'[k] = [bucket |-> Target, id |-> v.id]
      /\ \A j \in Keys : j # k => upserts'[j] = upserts[j]
  <2>1. [bucket |-> Target, id |-> v.id] \in Place
    BY <1>2, MarketAssumption DEF Place
  <2>2. QED
    BY <1>2, <1>4, <2>1 DEF TypeOK
<1>7. TypeOK' /\ SourcesHaveRows'
  BY <1>3, <1>5, <1>6 DEF TypeOK, SourcesHaveRows, prune, normal, world
<1>8. UpsertsAreSealed'
  <2>1. \A j \in Keys : upserts'[j] # None =>
           /\ j \in Seeded /\ upserts'[j].bucket = Target
           /\ \E w \in objects' : /\ w.bucket = upserts'[j].bucket /\ w.key = j
                                  /\ w.id = upserts'[j].id /\ w.sealed
    <3> TAKE j \in Keys
    <3> HAVE upserts'[j] # None
    <3>1. CASE j = k
      BY <1>2, <1>6, <3>1
    <3>2. CASE j # k
      BY <1>5, <1>6, <3>2 DEF UpsertsAreSealed, SealedAt
    <3>3. QED
      BY <3>1, <3>2
  <2>2. QED
    BY <1>3, <2>1 DEF UpsertsAreSealed, SealedAt
<1>9. InHand' /\ PendingAreSources' /\ FoundFits' /\ OutputIsPut'
  BY <1>3, <1>5
     DEF InHand, PendingAreSources, FoundFits, OutputIsPut, Normalising, Source, prune, normal
<1>10. ~together => pc \in {"idle", "done"} /\ output = None
  BY <1>3 DEF Apart
<1>11. Apart' /\ PruneIsRight' /\ OrphansPruned'
  BY <1>3, <1>10 DEF Apart, PruneIsRight, OrphansPruned, prune, world
<1>12. NamedIsLatest'
  BY <1>3, <1>4, <1>5, <1>6, <1>10 DEF NamedIsLatest
<1>13. QED
  BY <1>5, <1>7, <1>8, <1>9, <1>11, <1>12
-----------------------------------------------------------------------------
(* The store and the prune, whatever overlaps *)

LEMMA MarketInit == Init => StoreInv
<1> SUFFICES ASSUME Init PROVE StoreInv
  OBVIOUS
<1>1. PICK start \in [DOMAIN Order -> Restored] :
          LET there == {i \in DOMAIN Order : Order[i] \notin Seeded}
              At(i) == [bucket |-> start[i].bucket, key |-> Order[i], id |-> i,
                        body |-> start[i].body, sealed |-> start[i].sealed]
          IN  /\ objects = {At(i) : i \in there}
              /\ rows = [k \in Keys |->
                    IF \E i \in there : Order[i] = k
                    THEN LET i == CHOOSE j \in there : Order[j] = k
                         IN  IF start[i].named
                             THEN [bucket |-> start[i].bucket, id |-> i]
                             ELSE [bucket |-> Target, id |-> 0]
                    ELSE None]
  BY DEF Init
<1> DEFINE there == {i \in DOMAIN Order : Order[i] \notin Seeded}
           At(i) == [bucket |-> start[i].bucket, key |-> Order[i], id |-> i,
                     body |-> start[i].body, sealed |-> start[i].sealed]
<1>2. /\ DOMAIN Order = 1..Len(Order) /\ Len(Order) \in Nat /\ Len(Order) <= MaxVersions
      /\ MaxVersions \in Nat /\ Target \in Buckets
      /\ \A i \in there : i \in 1..MaxVersions /\ i \in 1..Len(Order)
                          /\ Order[i] \in Sources /\ Order[i] \in Keys /\ Order[i] \notin Seeded
  BY MarketAssumption DEF Sources, Keys
<1>3. \A i \in there : /\ start[i].bucket \in Buckets /\ start[i].body \in {"own", "other"}
                       /\ start[i].sealed \in BOOLEAN
                       /\ start[i].sealed => start[i].body = "own"
                                             /\ (start[i].bucket = Target \/ SealedAway)
  BY DEF Restored
<1>4. \A i \in there : At(i) \in Version
  BY <1>2, <1>3 DEF Version
<1>5. objects = {At(i) : i \in there}
  BY <1>1
<1>6. IsFiniteSet(objects)
  <2>1. IsFiniteSet(1..Len(Order)) /\ there \in SUBSET (1..Len(Order))
    BY <1>2, FS_Interval
  <2>2. IsFiniteSet(there)
    BY <2>1, FS_Subset
  <2>3. [i \in there |-> At(i)] \in Surjection(there, objects)
    BY <1>5 DEF Surjection
  <2>4. QED
    BY <2>2, <2>3, FS_Surjection
<1>7. SealedIsOwn
  BY <1>3, <1>5 DEF SealedIsOwn
<1>8. IdsAreOwn
  <2>1. Len(Order) < NextId /\ NextId \in Nat
    BY <1>6, CountOfObjects
  <2>2. \A v \in objects : v.id \in 1..Len(Order)
    BY <1>2, <1>5
  <2>3. \A v, w \in objects : v.id = w.id => v = w
    BY <1>5
  <2>4. QED
    BY <1>2, <1>6, <2>1, <2>2, <2>3 DEF IdsAreOwn
<1>9. ASSUME NEW k \in Keys
      PROVE  /\ rows[k] \in {None} \cup Place
             /\ rows[k] # None => k \in Sources \ Seeded
  <2>1. CASE \E i \in there : Order[i] = k
    <3> DEFINE n == CHOOSE j \in there : Order[j] = k
    <3>1. n \in there /\ Order[n] = k
      BY <2>1
    <3>2. rows[k] = IF start[n].named THEN [bucket |-> start[n].bucket, id |-> n]
                                      ELSE [bucket |-> Target, id |-> 0]
      BY <1>1, <2>1
    <3>3. n \in 0..MaxVersions /\ 0 \in 0..MaxVersions /\ start[n].bucket \in Buckets
      BY <1>2, <1>3, <3>1
    <3> HIDE DEF n
    <3>4. rows[k] \in Place
      BY <1>2, <3>2, <3>3 DEF Place
    <3>5. QED
      BY <1>2, <3>1, <3>4
  <2>2. CASE ~\E i \in there : Order[i] = k
    BY <1>1, <2>2
  <2>3. QED
    BY <2>1, <2>2
<1>10. rows \in [Keys -> {None} \cup Place]
  BY <1>1, <1>9
<1>11. /\ pc = "idle" /\ referenced = {} /\ orphaned = {}
       /\ sources = {} /\ todo = {} /\ found = None /\ pending = Unwritten
       /\ seeding = None /\ upserts = Unwritten
       /\ output = None /\ crashes = 0 /\ together \in BOOLEAN
  BY DEF Init
<1>12. Unwritten \in [Keys -> {None} \cup Place] /\ \A k \in Keys : Unwritten[k] = None
  BY DEF Unwritten
<1>13. TypeOK
  <2>1. objects \subseteq Version
    BY <1>4, <1>5
  <2> HIDE DEF there, At
  <2>2. QED
    BY <1>10, <1>11, <1>12, <2>1, MarketAssumption DEF TypeOK
<1> HIDE DEF there, At
<1>14. AtTarget /\ ReferencedKept
  BY <1>9, MarketAssumption DEF AtTarget, ReferencedKept, Keys, Seeded
<1>15. /\ UpsertsAreSealed /\ PendingAreSources /\ InHand /\ FoundFits /\ OutputIsPut
       /\ SourcesHaveRows
  BY <1>11, <1>12 DEF UpsertsAreSealed, PendingAreSources, InHand, FoundFits, OutputIsPut,
                      SourcesHaveRows, Normalising
<1>16. Apart /\ PruneIsRight /\ NamedIsLatest /\ OrphansPruned
  BY <1>11, <1>12 DEF Apart, PruneIsRight, NamedIsLatest, OrphansPruned
<1>17. QED
  BY <1>7, <1>8, <1>13, <1>14, <1>15, <1>16 DEF StoreInv

LEMMA MarketStutter ==
    ASSUME StoreInv, UNCHANGED vars
    PROVE  StoreInv'
<1> USE DEF StoreInv, vars, prune, normal, seeder, world
<1>1. /\ \A b, k : Latest(b, k)' = Latest(b, k)
      /\ \A k, place : SealedAt(k, place)' = SealedAt(k, place)
      /\ SealedIsOwn' /\ IdsAreOwn'
  BY StoreStands
<1>2. TypeOK' /\ AtTarget' /\ SourcesHaveRows'
  BY DEF TypeOK, AtTarget, SourcesHaveRows
<1>3. UpsertsAreSealed' /\ PendingAreSources' /\ InHand' /\ FoundFits' /\ OutputIsPut'
  BY <1>1 DEF UpsertsAreSealed, PendingAreSources, InHand, FoundFits, OutputIsPut,
              Normalising, Source
<1>4. Apart' /\ PruneIsRight' /\ NamedIsLatest' /\ ReferencedKept' /\ OrphansPruned'
  BY <1>1 DEF Apart, PruneIsRight, NamedIsLatest, ReferencedKept, OrphansPruned
<1>5. QED
  BY <1>1, <1>2, <1>3, <1>4

\* What the scripts have read or put when they go on, and what the rows say of
\* outputs, whoever steps.
THEOREM StoreInvHolds == Spec => []StoreInv
<1>1. StoreInv /\ [Next]_vars => StoreInv'
  BY StartKeeps, ListKeeps, DeleteKeeps, LocateKeeps, RewriteKeeps, BindKeeps, CommitKeeps,
     SeedStartKeeps, SeedFixtureKeeps, SeedCommitKeeps, PipelinePutKeeps, RecordKeeps,
     CrashKeeps, MarketStutter
     DEF Next, MaterialiserStep, SeederStep
<1>2. QED
  BY <1>1, MarketInit, PTL DEF Spec

\* Where nothing overlaps, the prune deletes the outputs that no row names,
\* all of them and no others; and objects and rows keep their types.
THEOREM PruneIsExact == Spec => []MarketInvariant
<1>1. StoreInv => MarketInvariant
  BY DEF StoreInv, MarketInvariant
<1>2. QED
  BY <1>1, StoreInvHolds, PTL

-----------------------------------------------------------------------------
(* What rows name *)

\* Every step keeps every version (the prune puts markers), and a row that
\* changes takes what its writer held: a commit of the materialiser or of the
\* seeder, or the record of an output.
LEMMA NormalSteps ==
    ASSUME StoreInv, StoreInv', [Next]_vars
    PROVE  /\ objects \subseteq objects'
           /\ \A k \in Keys : \/ rows'[k] = rows[k]
                              \/ rows'[k] = pending[k] /\ pending[k] # None /\ Commit
                              \/ rows'[k] = upserts[k] /\ upserts[k] # None
                              \/ /\ output # None /\ k = output.key
                                 /\ rows'[k] = [bucket |-> Target, id |-> output.id]
<1>1. objects \subseteq objects'
  BY DEF Next, MaterialiserStep, SeederStep, Start, List, Delete, Locate, Rewrite, Bind,
         Commit, SeedStart, SeedFixture, SeedCommit, PipelinePut, PipelineRecord, Crash,
         Put, vars
<1>2. CASE Commit
  BY <1>1, <1>2 DEF Commit, Written
<1>3. CASE SeedCommit
  BY <1>1, <1>3 DEF SeedCommit, Written
<1>4. CASE PipelineRecord
  BY <1>1, <1>4 DEF PipelineRecord, StoreInv, TypeOK
<1>5. CASE rows' = rows
  BY <1>1, <1>5
<1>6. QED
  BY <1>2, <1>3, <1>4, <1>5
     DEF Next, MaterialiserStep, SeederStep, Start, List, Delete, Locate, Rewrite, Bind,
         SeedStart, SeedFixture, PipelinePut, Crash, vars

\* Every row that names a version of this store names one that is there.
RowsName ==
    \A k \in Keys : rows[k] # None =>
        \/ rows[k].id = 0
        \/ \E v \in objects : v.bucket = rows[k].bucket /\ v.key = k /\ v.id = rows[k].id

\* What is or is about to be bound to a source is sealed.
PendingAreSealed == \A k \in Keys : pending[k] # None => SealedAt(k, pending[k])

NormalisedAreSealed ==
    Normalising => \A k \in sources \ todo : pending[k] = None => SealedAt(k, rows[k])

SourcesAreSealed == pc = "done" => \A k \in sources : SealedAt(k, rows[k])

RowsInv == RowsName /\ PendingAreSealed /\ NormalisedAreSealed /\ SourcesAreSealed

\* A row is given another version only if that is in the store.
LEMMA NewRowsName ==
    ASSUME StoreInv, StoreInv', [Next]_vars, PendingAreSealed, NEW k \in Keys
    PROVE  \/ rows'[k] = rows[k]
           \/ rows'[k] # None /\ SealedAt(k, rows[k])'
           \/ /\ k \in Outputs /\ rows'[k] # None
              /\ \E v \in objects' : /\ v.bucket = rows'[k].bucket /\ v.key = k
                                     /\ v.id = rows'[k].id /\ v.body = "own"
<1>1. objects \subseteq objects'
  BY NormalSteps
<1>2. CASE rows'[k] = pending[k] /\ pending[k] # None
  BY <1>1, <1>2 DEF PendingAreSealed, SealedAt
<1>3. CASE rows'[k] = upserts[k] /\ upserts[k] # None
  BY <1>1, <1>3 DEF StoreInv, UpsertsAreSealed, SealedAt
<1>4. CASE output # None /\ k = output.key /\ rows'[k] = [bucket |-> Target, id |-> output.id]
  <2>1. k \in Outputs /\ rows'[k] # None
    <3>1. output.key \in Outputs /\ output.id \in 1..MaxVersions
      BY <1>4 DEF StoreInv, TypeOK, Recording
    <3>2. [bucket |-> Target, id |-> output.id] \in Place
      BY <3>1, MarketAssumption DEF Place
    <3>3. QED
      BY <1>4, <3>1, <3>2, NoneAssumption
  <2>2. PICK v \in objects : v.bucket = Target /\ v.key = k /\ v.id = output.id /\ v.body = "own"
    BY <1>4 DEF StoreInv, OutputIsPut
  <2>3. QED
    BY <1>1, <1>4, <2>1, <2>2
<1>5. QED
  BY <1>2, <1>3, <1>4, NormalSteps

\* No step makes a row that could be read name something else.
LEMMA ResolvingStays ==
    ASSUME StoreInv, StoreInv', [Next]_vars, PendingAreSealed, NEW k \in Keys, Resolves(k)
    PROVE  Resolves(k)'
<1>1. objects \subseteq objects'
  BY NormalSteps
<1>2. rows[k] # None /\ \E v \in objects : /\ v.bucket = rows[k].bucket /\ v.key = k
                                           /\ v.id = rows[k].id /\ v.body = "own"
  BY DEF Resolves, Exactly, VersionsOf
<1>3. rows'[k] # None /\ \E v \in objects' : /\ v.bucket = rows'[k].bucket /\ v.key = k
                                             /\ v.id = rows'[k].id /\ v.body = "own"
  <2>1. CASE rows'[k] = rows[k]
    BY <1>1, <1>2, <2>1
  <2>2. CASE rows'[k] # None /\ SealedAt(k, rows[k])'
    BY <2>2 DEF SealedAt, StoreInv, SealedIsOwn
  <2>3. CASE /\ rows'[k] # None
             /\ \E v \in objects' : /\ v.bucket = rows'[k].bucket /\ v.key = k
                                    /\ v.id = rows'[k].id /\ v.body = "own"
    BY <2>3
  <2>4. QED
    BY <2>1, <2>2, <2>3, NewRowsName
<1>4. QED
  BY <1>3 DEF Resolves, Exactly, VersionsOf

LEMMA RowsNameNext ==
    ASSUME StoreInv, StoreInv', [Next]_vars, RowsInv
    PROVE  RowsName'
<1> USE DEF RowsInv
<1>1. objects \subseteq objects'
  BY NormalSteps
<1> SUFFICES ASSUME NEW k \in Keys, rows'[k] # None
             PROVE  \/ rows'[k].id = 0
                    \/ \E v \in objects' : /\ v.bucket = rows'[k].bucket /\ v.key = k
                                           /\ v.id = rows'[k].id
  BY DEF RowsName
<1>2. CASE rows'[k] = rows[k]
  BY <1>1, <1>2 DEF RowsName
<1>3. CASE SealedAt(k, rows[k])'
  BY <1>3 DEF SealedAt
<1>4. QED
  BY <1>2, <1>3, NewRowsName

\* The materialiser's own steps change what it has in hand; others do not.
LEMMA MaterialiserFrame ==
    ASSUME [Next]_vars
    PROVE  \/ Start \/ List \/ Locate \/ Rewrite \/ Bind \/ Commit \/ Stop("idle")
           \/ Delete /\ orphaned = {}
           \/ UNCHANGED <<pc, sources, todo, pending>>
  BY DEF Next, MaterialiserStep, SeederStep, Delete, SeedStart, SeedFixture, SeedCommit,
         PipelinePut, PipelineRecord, Crash, prune, normal, vars

\* The version found for the next source
LEMMA FoundIsSealed ==
    ASSUME ~SealedAway, StoreInv, Bind
    PROVE  SealedAt(Source, [bucket |-> Target, id |-> found.id])
<1>1. found \in objects /\ found.key = Source /\ found.sealed
  BY DEF StoreInv, FoundFits, Bind
<1>2. found.bucket = Target
  BY <1>1 DEF StoreInv, SealedIsOwn
<1>3. QED
  BY <1>1, <1>2 DEF SealedAt

LEMMA PendingNext ==
    ASSUME ~SealedAway, StoreInv, StoreInv', [Next]_vars, RowsInv
    PROVE  PendingAreSealed'
<1> USE DEF RowsInv
<1>1. objects \subseteq objects'
  BY NormalSteps
<1>2. \A k \in Keys : pending'[k] # None =>
         \/ pending'[k] = pending[k]
         \/ Bind /\ k = Source /\ pending'[k] = [bucket |-> Target, id |-> found.id]
  <2>1. CASE Bind
    <3>1. Source \in Keys
      BY <2>1, SourceIsNext DEF Bind, StoreInv, FoundFits, Keys
    <3>2. QED
      BY <2>1, <3>1 DEF Bind, Done, StoreInv, TypeOK
  <2>2. CASE Stop("idle") \/ Commit \/ Locate
    BY <2>2 DEF Stop, Commit, Locate, Done, Unwritten
  <2>3. CASE pending' = pending
    BY <2>3
  <2>4. QED
    BY <2>1, <2>2, <2>3, MaterialiserFrame DEF Start, List, Delete, Rewrite, normal
<1>3. SUFFICES ASSUME NEW k \in Keys, pending'[k] # None
               PROVE  \E v \in objects' : /\ v.bucket = pending'[k].bucket /\ v.key = k
                                          /\ v.id = pending'[k].id /\ v.sealed
  BY DEF PendingAreSealed, SealedAt
<1>4. CASE pending'[k] = pending[k]
  BY <1>1, <1>3, <1>4 DEF PendingAreSealed, SealedAt
<1>5. CASE Bind /\ k = Source /\ pending'[k] = [bucket |-> Target, id |-> found.id]
  BY <1>1, <1>5, FoundIsSealed DEF SealedAt
<1>6. QED
  BY <1>2, <1>3, <1>4, <1>5

\* What Locate takes for the version a row names is that version, though it
\* compares ids and not buckets.
LEMMA LocatedIsNamed ==
    ASSUME StoreInv, RowsName, todo # {},
           NEW v \in Copies(rows[Source]), v.sealed, v.id = rows[Source].id
    PROVE  SealedAt(Source, rows[Source])
<1>1. Source \in sources /\ Source \in Keys
  BY SourceIsNext DEF StoreInv, Keys
<1>2. v \in objects /\ v.key = Source
  BY LatestAre DEF Copies, Exactly, VersionsOf
<1>3. rows[Source] # None /\ v.id # 0
  BY <1>1, <1>2 DEF StoreInv, SourcesHaveRows, TypeOK, Version
<1>4. PICK w \in objects : /\ w.bucket = rows[Source].bucket /\ w.key = Source
                           /\ w.id = rows[Source].id
  BY <1>1, <1>3 DEF RowsName
<1>5. v = w
  BY <1>2, <1>4 DEF StoreInv, IdsAreOwn
<1>6. QED
  BY <1>4, <1>5 DEF SealedAt

\* A source's row, once sealed, is only ever bound to a sealed version.
LEMMA SealedRowsStay ==
    ASSUME StoreInv, StoreInv', [Next]_vars, PendingAreSealed, NEW k \in Sources,
           SealedAt(k, rows[k])
    PROVE  SealedAt(k, rows[k])'
<1>1. k \in Keys /\ k \notin Outputs /\ objects \subseteq objects'
  BY NormalSteps, MarketAssumption DEF Keys
<1>2. CASE rows'[k] = rows[k]
  BY <1>1, <1>2 DEF SealedAt
<1>3. QED
  BY <1>1, <1>2, NewRowsName

LEMMA NormalisedNext ==
    ASSUME ~SealedAway, StoreInv, StoreInv', [Next]_vars, RowsInv
    PROVE  NormalisedAreSealed'
<1> USE DEF RowsInv
<1> SUFFICES ASSUME Normalising', NEW k \in sources' \ todo', pending'[k] = None
             PROVE  SealedAt(k, rows[k])'
  BY DEF NormalisedAreSealed
<1>1. k \in Sources
  BY DEF StoreInv, TypeOK
<1>2. SUFFICES SealedAt(k, rows[k])
  BY <1>1, SealedRowsStay
<1>3. CASE UNCHANGED <<pc, sources, todo, pending>> \/ Rewrite
  BY <1>3 DEF NormalisedAreSealed, Normalising, Rewrite
<1>4. CASE Delete /\ orphaned = {}
  BY <1>4 DEF Delete
<1>5. CASE Start \/ List \/ Commit \/ Stop("idle")
  BY <1>5 DEF Start, List, Commit, Stop, Normalising
<1>6. CASE Locate
  <2>1. CASE k \notin todo
    BY <1>6, <2>1 DEF NormalisedAreSealed, Normalising, Locate, Stop, Done
  <2>2. CASE k \in todo
    <3>1. k = Source
      BY <1>6, <2>2 DEF Locate, Stop, Done, Normalising
    <3>2. \E v \in Copies(rows[Source]) : v.sealed /\ v.id = rows[Source].id
      BY <1>6, <2>2 DEF Locate, Stop, Done, Normalising
    <3>3. QED
      BY <1>6, <3>1, <3>2, LocatedIsNamed DEF Locate
  <2>3. QED
    BY <2>1, <2>2
<1>7. CASE Bind
  <2>1. /\ pending' = [pending EXCEPT ![Source] = [bucket |-> Target, id |-> found.id]]
        /\ todo' = todo \ {Source} /\ sources' = sources /\ pc = "bind"
    BY <1>7 DEF Bind, Done
  <2>2. Source \in Keys /\ k \in Keys
    BY <1>1, <1>7, SourceIsNext DEF Bind, StoreInv, FoundFits, Keys
  <2>3. [bucket |-> Target, id |-> found.id] # None
    <3>1. pending'[Source] = [bucket |-> Target, id |-> found.id]
      BY <2>1, <2>2 DEF StoreInv, TypeOK
    <3>2. pending'[Source] \in {None} \cup Place
      BY <2>2 DEF StoreInv, TypeOK
    <3>3. found.id \in 1..MaxVersions
      BY <1>7 DEF Bind, StoreInv, FoundFits, TypeOK, Version
    <3>4. [bucket |-> Target, id |-> found.id] \in Place
      BY <3>3, MarketAssumption DEF Place
    <3>5. QED
      BY <3>4, NoneAssumption
  <2>4. k # Source
    BY <2>1, <2>2, <2>3 DEF StoreInv, TypeOK
  <2>5. k \in sources \ todo /\ pending[k] = None
    BY <2>1, <2>2, <2>4 DEF StoreInv, TypeOK
  <2>6. QED
    BY <2>1, <2>5 DEF NormalisedAreSealed, Normalising
<1>8. QED
  BY <1>3, <1>4, <1>5, <1>6, <1>7, MaterialiserFrame

LEMMA SourcesNext ==
    ASSUME ~SealedAway, StoreInv, StoreInv', [Next]_vars, RowsInv
    PROVE  SourcesAreSealed'
<1> USE DEF RowsInv
<1> SUFFICES ASSUME pc' = "done", NEW k \in sources'
             PROVE  SealedAt(k, rows[k])'
  BY DEF SourcesAreSealed
<1>1. k \in Sources /\ k \in Keys
  BY DEF StoreInv, TypeOK, Keys
<1>2. CASE Commit
  <2>1. /\ rows'[k] = IF pending[k] = None THEN rows[k] ELSE pending[k]
        /\ todo = {} /\ pc = "locate" /\ sources' = sources
    BY <1>1, <1>2 DEF Commit, Written
  <2>2. SealedAt(k, rows'[k])
    BY <1>1, <2>1 DEF NormalisedAreSealed, PendingAreSealed, Normalising
  <2>3. objects \subseteq objects'
    BY NormalSteps
  <2>4. QED
    BY <2>2, <2>3 DEF SealedAt
<1>3. CASE UNCHANGED <<pc, sources, todo, pending>>
  BY <1>1, <1>3, SealedRowsStay DEF SourcesAreSealed
<1>4. QED
  BY <1>2, <1>3, MaterialiserFrame DEF Start, List, Delete, Locate, Rewrite, Bind, Stop, Done

LEMMA RowsInit == Init => RowsInv
<1> SUFFICES ASSUME Init PROVE RowsInv
  OBVIOUS
<1>1. pc = "idle" /\ \A k \in Keys : pending[k] = None
  BY DEF Init, Unwritten
<1>2. RowsName
  <2> SUFFICES ASSUME NEW k \in Keys, rows[k] # None
               PROVE  \/ rows[k].id = 0
                      \/ \E v \in objects : /\ v.bucket = rows[k].bucket /\ v.key = k
                                            /\ v.id = rows[k].id
    BY DEF RowsName
  <2>1. PICK start \in [DOMAIN Order -> Restored] :
          LET there == {i \in DOMAIN Order : Order[i] \notin Seeded}
              At(i) == [bucket |-> start[i].bucket, key |-> Order[i], id |-> i,
                        body |-> start[i].body, sealed |-> start[i].sealed]
          IN  /\ objects = {At(i) : i \in there}
              /\ rows = [q \in Keys |->
                    IF \E i \in there : Order[i] = q
                    THEN LET i == CHOOSE j \in there : Order[j] = q
                         IN  IF start[i].named
                             THEN [bucket |-> start[i].bucket, id |-> i]
                             ELSE [bucket |-> Target, id |-> 0]
                    ELSE None]
    BY DEF Init
  <2> DEFINE there == {i \in DOMAIN Order : Order[i] \notin Seeded}
             At(i) == [bucket |-> start[i].bucket, key |-> Order[i], id |-> i,
                       body |-> start[i].body, sealed |-> start[i].sealed]
             n == CHOOSE j \in there : Order[j] = k
  <2>2. \E i \in there : Order[i] = k
    BY <2>1
  <2>3. n \in there /\ Order[n] = k
    BY <2>2
  <2>4. rows[k] = IF start[n].named THEN [bucket |-> start[n].bucket, id |-> n]
                                    ELSE [bucket |-> Target, id |-> 0]
    BY <2>1, <2>2
  <2> HIDE DEF n
  <2>5. objects = {At(i) : i \in there}
    BY <2>1
  <2>6. At(n) \in objects /\ At(n).bucket = start[n].bucket /\ At(n).key = k /\ At(n).id = n
    BY <2>5, <2>3
  <2> HIDE DEF At, there
  <2>7. QED
    BY <2>4, <2>6
<1>3. QED
  BY <1>1, <1>2 DEF RowsInv, PendingAreSealed, NormalisedAreSealed, SourcesAreSealed, Normalising

\* Where no sealed copy is in another bucket, rows name what is there.
LEMMA RowsInvHolds ==
    ASSUME ~SealedAway
    PROVE  Spec => [](StoreInv /\ RowsInv)
<1>1. StoreInv /\ StoreInv' /\ RowsInv /\ [Next]_vars => RowsInv'
  BY RowsNameNext, PendingNext, NormalisedNext, SourcesNext DEF RowsInv
<1>2. Init => RowsInv
  BY RowsInit
<1>3. QED
  BY <1>1, <1>2, StoreInvHolds, PTL DEF Spec

\* Where no sealed copy is in another bucket: a row that could be read stays
\* readable through every put, prune, rebinding, rollback and crash.
THEOREM RowsKeepResolving ==
    ASSUME ~SealedAway
    PROVE  Spec => KeepsResolving
<1>1. StoreInv /\ StoreInv' /\ RowsInv /\ [Next]_vars =>
          [\A k \in Keys : Resolves(k) => Resolves(k)']_vars
  BY ResolvingStays DEF RowsInv
<1>2. QED
  BY <1>1, RowsInvHolds, PTL DEF Spec, KeepsResolving

\* Where no sealed copy is in another bucket: when the materialiser reports
\* "prepared", every source it set out to normalise is sealed where its row says.
THEOREM PreparedIsSealed ==
    ASSUME ~SealedAway
    PROVE  Spec => []PreparedSources
<1>1. StoreInv /\ RowsInv => PreparedSources
  BY DEF StoreInv, RowsInv, SourcesAreSealed, SealedIsOwn, SealedAt, PreparedSources,
         Exactly, VersionsOf
<1>2. QED
  BY <1>1, RowsInvHolds, PTL

=============================================================================
