------------------------ MODULE ExecutionBook_proofs ------------------------
(***************************************************************************)
(* Proofs about ExecutionBook: what the book of an execution promises, for *)
(* every set of instruments, prices, capacities and rates.                 *)
(***************************************************************************)
EXTENDS ExecutionBook, FiniteSetTheorems, SequenceTheorems, WellFoundedInduction,
        TLAPS

-----------------------------------------------------------------------------
(* Sums over finite sets *)

\* Every set of subsets of a finite set has a smallest member.
LEMMA Least ==
    ASSUME NEW S, IsFiniteSet(S), NEW C, C \subseteq SUBSET S, C # {}
    PROVE  \E T \in C : \A U \in C : U \subseteq T => U = T
<1>1. IsWellFoundedOn(StrictSubsetOrdering(S), FiniteSubsetsOf(S))
  BY FS_StrictSubsetOrderingWellFounded
<1>2. C \subseteq FiniteSubsetsOf(S)
  BY FS_FiniteSubsetsOfFinite
<1>3. PICK T \in C : \A U \in C : <<U, T>> \notin StrictSubsetOrdering(S)
  BY <1>1, <1>2, WFMin
<1>4. QED
  BY <1>3 DEF StrictSubsetOrdering

First(s) == CHOOSE x \in s : TRUE

\* g sums f over every subset of S, the way SumFunctionOnSet does.
Sums(g, f, S) ==
    g = [s \in SUBSET S |-> IF s = {} THEN 0 ELSE f[First(s)] + g[s \ {First(s)}]]

LEMMA SumIs ==
    ASSUME NEW f, NEW S
    PROVE  SumFunctionOnSet(f, S) = (CHOOSE g : Sums(g, f, S))[S]
BY DEF SumFunctionOnSet, FoldFunctionOnSet, MapThenFoldSet, Sums, First

LEMMA FirstIn ==
    ASSUME NEW s, s # {}
    PROVE  First(s) \in s
BY DEF First

LEMMA SumsAgree ==
    ASSUME NEW f, NEW T, NEW U, NEW g, NEW h, Sums(g, f, T), Sums(h, f, U),
           NEW W, W \subseteq T, W \subseteq U, IsFiniteSet(W)
    PROVE  g[W] = h[W]
<1> DEFINE C == {s \in SUBSET W : g[s] # h[s]}
<1>1. SUFFICES C = {}
  OBVIOUS
<1>2. SUFFICES ASSUME C # {} PROVE FALSE
  OBVIOUS
<1>3. PICK s \in C : \A u \in C : u \subseteq s => u = s
  <2> HIDE DEF C
  <2>1. C \subseteq SUBSET W
    BY DEF C
  <2>2. QED
    BY <1>2, <2>1, Least
<1>4. s \in SUBSET T /\ s \in SUBSET U
  OBVIOUS
<1>5. g[s] = IF s = {} THEN 0 ELSE f[First(s)] + g[s \ {First(s)}]
  BY <1>4 DEF Sums
<1>6. h[s] = IF s = {} THEN 0 ELSE f[First(s)] + h[s \ {First(s)}]
  BY <1>4 DEF Sums
<1>7. CASE s = {}
  BY <1>5, <1>6, <1>7
<1>8. CASE s # {}
  <2>1. s \ {First(s)} \subseteq s /\ s \ {First(s)} # s /\ s \ {First(s)} \in SUBSET W
    BY <1>8, FirstIn
  <2>2. g[s \ {First(s)}] = h[s \ {First(s)}]
    BY <1>3, <2>1
  <2>3. QED
    BY <1>5, <1>6, <1>8, <2>2
<1>9. QED
  BY <1>7, <1>8

LEMMA SumsExist ==
    ASSUME NEW f, NEW S, IsFiniteSet(S)
    PROVE  \E g : Sums(g, f, S)
<1> DEFINE C == {T \in SUBSET S : ~ \E g : Sums(g, f, T)}
<1>1. SUFFICES ASSUME C # {} PROVE FALSE
  OBVIOUS
<1>2. PICK T \in C : \A U \in C : U \subseteq T => U = T
  <2> HIDE DEF C
  <2>1. C \subseteq SUBSET S
    BY DEF C
  <2>2. QED
    BY <1>1, <2>1, Least
<1> DEFINE v(u) == (CHOOSE g : Sums(g, f, u))[u]
           h == [s \in SUBSET T |-> IF s = {} THEN 0
                                    ELSE f[First(s)] + v(s \ {First(s)})]
<1>3. ASSUME NEW u \in SUBSET T, u # T
      PROVE  Sums(CHOOSE g : Sums(g, f, u), f, u)
  <2>1. u \in SUBSET S /\ u \notin C
    BY <1>2, <1>3
  <2>2. \E g : Sums(g, f, u)
    BY <2>1
  <2>3. QED
    BY <2>2
<1>4. ASSUME NEW u \in SUBSET T, u # T
      PROVE  h[u] = v(u)
  <2>1. v(u) = IF u = {} THEN 0
               ELSE f[First(u)] + (CHOOSE g : Sums(g, f, u))[u \ {First(u)}]
    <3>1. u \in SUBSET u
      OBVIOUS
    <3>2. Sums(CHOOSE g : Sums(g, f, u), f, u)
      BY <1>3, <1>4
    <3> DEFINE G == CHOOSE g : Sums(g, f, u)
    <3>3. Sums(G, f, u)
      BY <3>2
    <3>4. G[u] = IF u = {} THEN 0 ELSE f[First(u)] + G[u \ {First(u)}]
      <4> HIDE DEF G
      <4>1. QED
        BY <3>1, <3>3 DEF Sums
    <3>5. QED
      BY <3>4
  <2>2. CASE u = {}
    BY <2>1, <2>2
  <2>3. CASE u # {}
    <3> DEFINE w == u \ {First(u)}
    <3>1. w \in SUBSET T /\ w # T /\ w \subseteq u /\ IsFiniteSet(w)
      BY <2>3, <1>2, FirstIn, FS_Subset
    <3>2. (CHOOSE g : Sums(g, f, u))[w] = (CHOOSE g : Sums(g, f, w))[w]
      <4>1. Sums(CHOOSE g : Sums(g, f, u), f, u) /\ Sums(CHOOSE g : Sums(g, f, w), f, w)
        BY <3>1, <1>3, <1>4
      <4> HIDE DEF w
      <4>2. QED
        BY <4>1, <3>1, SumsAgree
    <3>3. h[u] = f[First(u)] + v(w)
      BY <2>3
    <3>4. QED
      BY <3>2, <3>3, <2>1, <2>3
  <2>4. QED
    BY <2>2, <2>3
<1>5. Sums(h, f, T)
  <2>1. ASSUME NEW s \in SUBSET T, s # {}
        PROVE  h[s \ {First(s)}] = v(s \ {First(s)})
    <3>1. s \ {First(s)} \in SUBSET T /\ s \ {First(s)} # T
      BY <2>1, FirstIn
    <3> HIDE DEF h, v
    <3>2. QED
      BY <3>1, <1>4
  <2>2. ASSUME NEW s \in SUBSET T
        PROVE  (IF s = {} THEN 0 ELSE f[First(s)] + v(s \ {First(s)}))
               = (IF s = {} THEN 0 ELSE f[First(s)] + h[s \ {First(s)}])
    <3> HIDE DEF h, v
    <3>1. QED
      BY <2>1
  <2>3. h = [s \in SUBSET T |-> IF s = {} THEN 0 ELSE f[First(s)] + h[s \ {First(s)}]]
    <3>1. h = [s \in SUBSET T |-> IF s = {} THEN 0 ELSE f[First(s)] + v(s \ {First(s)})]
      OBVIOUS
    <3> HIDE DEF h, v
    <3>2. QED
      BY <2>2, <3>1
  <2> HIDE DEF h
  <2>4. QED
    BY <2>3 DEF Sums
<1>6. QED
  <2> HIDE DEF h
  <2>1. QED
    BY <1>2, <1>5

LEMMA SumFirst ==
    ASSUME NEW f, NEW S, IsFiniteSet(S)
    PROVE  SumFunctionOnSet(f, S)
             = IF S = {} THEN 0
               ELSE f[First(S)] + SumFunctionOnSet(f, S \ {First(S)})
<1> DEFINE G(s) == CHOOSE g : Sums(g, f, s)
           R == S \ {First(S)}
<1>1. IsFiniteSet(R)
  BY FS_Subset
<1>2. Sums(G(S), f, S) /\ Sums(G(R), f, R)
  <2> HIDE DEF R
  <2>1. (\E g : Sums(g, f, S)) /\ (\E g : Sums(g, f, R))
    BY <1>1, SumsExist
  <2>2. QED
    BY <2>1
<1>3. G(S)[S] = IF S = {} THEN 0 ELSE f[First(S)] + G(S)[R]
  <2> HIDE DEF G
  <2>1. S \in SUBSET S
    OBVIOUS
  <2>2. QED
    BY <2>1, <1>2 DEF Sums
<1>4. G(S)[R] = G(R)[R]
  <2>1. R \subseteq S /\ R \subseteq R
    OBVIOUS
  <2> HIDE DEF G, R
  <2>2. QED
    BY <2>1, <1>1, <1>2, SumsAgree
<1>5. SumFunctionOnSet(f, S) = G(S)[S] /\ SumFunctionOnSet(f, R) = G(R)[R]
  BY SumIs
<1> HIDE DEF G
<1>6. QED
  BY <1>3, <1>4, <1>5

LEMMA SumEmpty ==
    ASSUME NEW f
    PROVE  SumFunctionOnSet(f, {}) = 0
BY SumFirst, FS_EmptySet

\* The sum of whole numbers is one, and is at least 0 if they all are.
LEMMA SumType ==
    ASSUME NEW S, IsFiniteSet(S), NEW f, \A x \in S : f[x] \in Int
    PROVE  /\ SumFunctionOnSet(f, S) \in Int
           /\ (\A x \in S : f[x] >= 0) => SumFunctionOnSet(f, S) >= 0
<1> DEFINE P(T) == /\ SumFunctionOnSet(f, T) \in Int
                   /\ (\A x \in S : f[x] >= 0) => SumFunctionOnSet(f, T) >= 0
           C == {T \in SUBSET S : ~P(T)}
<1>1. SUFFICES ASSUME C # {} PROVE FALSE
  OBVIOUS
<1>2. PICK T \in C : \A U \in C : U \subseteq T => U = T
  <2> HIDE DEF C
  <2>1. C \subseteq SUBSET S
    BY DEF C
  <2>2. QED
    BY <1>1, <2>1, Least
<1>3. IsFiniteSet(T) /\ T \subseteq S
  BY FS_Subset
<1>4. CASE T = {}
  BY <1>2, <1>4, SumEmpty
<1>5. CASE T # {}
  <2> DEFINE U == T \ {First(T)}
  <2>1. U \subseteq T /\ U # T /\ First(T) \in S
    BY <1>3, <1>5, FirstIn
  <2>2. P(U)
    <3>1. U \in SUBSET S /\ U \notin C
      BY <2>1, <1>2, <1>3
    <3>2. QED
      BY <3>1
  <2>3. SumFunctionOnSet(f, T) = f[First(T)] + SumFunctionOnSet(f, U)
    BY <1>3, <1>5, SumFirst
  <2>4. P(T)
    <3> HIDE DEF U
    <3>1. QED
      BY <2>1, <2>2, <2>3
  <2>5. QED
    BY <2>4
<1>6. QED
  BY <1>4, <1>5

\* Any member may be taken first.
LEMMA SumStep ==
    ASSUME NEW S, IsFiniteSet(S), NEW f, \A x \in S : f[x] \in Int, NEW x \in S
    PROVE  SumFunctionOnSet(f, S) = f[x] + SumFunctionOnSet(f, S \ {x})
<1> DEFINE P(T) == \A y \in T :
                      SumFunctionOnSet(f, T) = f[y] + SumFunctionOnSet(f, T \ {y})
           C == {T \in SUBSET S : ~P(T)}
<1>1. SUFFICES ASSUME C # {} PROVE FALSE
  <2>1. C = {} => P(S)
    OBVIOUS
  <2>2. QED
    BY <2>1
<1>2. PICK T \in C : \A U \in C : U \subseteq T => U = T
  <2> HIDE DEF C
  <2>1. C \subseteq SUBSET S
    BY DEF C
  <2>2. QED
    BY <1>1, <2>1, Least
<1>3. PICK y \in T : SumFunctionOnSet(f, T) # f[y] + SumFunctionOnSet(f, T \ {y})
  BY <1>2
<1> DEFINE c == First(T)
<1>4. c \in T /\ IsFiniteSet(T) /\ T # {}
  BY <1>3, FirstIn, FS_Subset
<1>5. SumFunctionOnSet(f, T) = f[c] + SumFunctionOnSet(f, T \ {c})
  BY <1>4, SumFirst
<1>6. y # c
  BY <1>3, <1>5
<1>7. SumFunctionOnSet(f, T \ {c}) = f[y] + SumFunctionOnSet(f, (T \ {c}) \ {y})
  <2>1. T \ {c} \notin C /\ T \ {c} \in SUBSET S /\ y \in T \ {c}
    BY <1>2, <1>4, <1>6
  <2>2. P(T \ {c})
    BY <2>1
  <2>3. QED
    BY <2>1, <2>2
<1>8. SumFunctionOnSet(f, T \ {y}) = f[c] + SumFunctionOnSet(f, (T \ {y}) \ {c})
  <2>1. T \ {y} \notin C /\ T \ {y} \in SUBSET S /\ c \in T \ {y}
    BY <1>2, <1>4, <1>6
  <2>2. P(T \ {y})
    BY <2>1
  <2>3. QED
    BY <2>1, <2>2
<1>9. (T \ {y}) \ {c} = (T \ {c}) \ {y}
  OBVIOUS
<1>10. SumFunctionOnSet(f, (T \ {c}) \ {y}) \in Int /\ f[c] \in Int /\ f[y] \in Int
  <2>1. IsFiniteSet((T \ {c}) \ {y}) /\ (T \ {c}) \ {y} \subseteq S
    BY <1>4, FS_Subset
  <2> HIDE DEF c
  <2>2. QED
    BY <2>1, <1>4, SumType
<1> HIDE DEF c
<1>11. SumFunctionOnSet(f, T) = f[y] + SumFunctionOnSet(f, T \ {y})
  <2> HIDE DEF C, P
  <2>1. PICK rest \in Int : rest = SumFunctionOnSet(f, (T \ {c}) \ {y})
    BY <1>10
  <2>2. SumFunctionOnSet(f, T) = f[c] + (f[y] + rest)
    BY <1>5, <1>7, <2>1, Zenon
  <2>3. SumFunctionOnSet(f, T \ {y}) = f[c] + rest
    BY <1>8, <1>9, <2>1, Zenon
  <2>4. QED
    BY <1>10, <2>2, <2>3
<1>12. QED
  BY <1>3, <1>11

LEMMA SumEqual ==
    ASSUME NEW S, IsFiniteSet(S), NEW f, NEW g, \A x \in S : f[x] = g[x]
    PROVE  SumFunctionOnSet(f, S) = SumFunctionOnSet(g, S)
<1> DEFINE C == {T \in SUBSET S : SumFunctionOnSet(f, T) # SumFunctionOnSet(g, T)}
<1>1. SUFFICES ASSUME C # {} PROVE FALSE
  OBVIOUS
<1>2. PICK T \in C : \A U \in C : U \subseteq T => U = T
  <2> HIDE DEF C
  <2>1. C \subseteq SUBSET S
    BY DEF C
  <2>2. QED
    BY <1>1, <2>1, Least
<1>3. IsFiniteSet(T) /\ T \subseteq S
  BY FS_Subset
<1>4. CASE T = {}
  BY <1>2, <1>4, SumEmpty
<1>5. CASE T # {}
  <2> DEFINE U == T \ {First(T)}
  <2>1. U \subseteq T /\ U # T /\ First(T) \in S
    BY <1>3, <1>5, FirstIn
  <2>2. SumFunctionOnSet(f, U) = SumFunctionOnSet(g, U)
    BY <2>1, <1>2, <1>3
  <2>3. /\ SumFunctionOnSet(f, T) = f[First(T)] + SumFunctionOnSet(f, U)
        /\ SumFunctionOnSet(g, T) = g[First(T)] + SumFunctionOnSet(g, U)
    BY <1>3, <1>5, SumFirst
  <2> HIDE DEF U
  <2>4. QED
    BY <2>1, <2>2, <2>3
<1>6. QED
  BY <1>4, <1>5

LEMMA SumOfPart ==
    ASSUME NEW S, IsFiniteSet(S), NEW f, \A x \in S : f[x] \in Nat, NEW T \in SUBSET S
    PROVE  SumFunctionOnSet(f, T) <= SumFunctionOnSet(f, S)
<1> DEFINE C == {W \in SUBSET S : /\ T \subseteq W
                                  /\ ~(SumFunctionOnSet(f, T) <= SumFunctionOnSet(f, W))}
<1>1. SUFFICES ASSUME C # {} PROVE FALSE
  OBVIOUS
<1>2. PICK W \in C : \A U \in C : U \subseteq W => U = W
  <2> HIDE DEF C
  <2>1. C \subseteq SUBSET S
    BY DEF C
  <2>2. QED
    BY <1>1, <2>1, Least
<1>3. IsFiniteSet(W) /\ W \subseteq S /\ T \subseteq W /\ IsFiniteSet(T)
  BY FS_Subset
<1>4. SumFunctionOnSet(f, T) \in Int
  BY <1>3, SumType
<1>5. W # T
  BY <1>2, <1>4
<1>6. PICK x \in W : x \notin T
  BY <1>3, <1>5
<1>7. SumFunctionOnSet(f, W) = f[x] + SumFunctionOnSet(f, W \ {x})
  BY <1>3, SumStep
<1>8. IsFiniteSet(W \ {x}) /\ W \ {x} \subseteq S /\ W \ {x} # W /\ T \subseteq W \ {x}
  BY <1>3, <1>6, FS_Subset
<1>9. SumFunctionOnSet(f, W \ {x}) \in Int
  BY <1>8, SumType
<1>10. SumFunctionOnSet(f, T) <= SumFunctionOnSet(f, W \ {x})
  BY <1>2, <1>8
<1>11. f[x] \in Nat
  BY <1>3
<1>12. QED
  BY <1>2, <1>4, <1>7, <1>9, <1>10, <1>11
-----------------------------------------------------------------------------
(* Sums over sequences *)

LEMMA CountUp ==
    ASSUME NEW L \in Nat, NEW T, 0 \in T, \A n \in 0..(L - 1) : n \in T => n + 1 \in T
    PROVE  \A n \in 0..L : n \in T
<1> DEFINE C == {n \in 0..L : n \notin T}
<1>1. SUFFICES ASSUME C # {} PROVE FALSE
  OBVIOUS
<1>2. PICK n \in C : \A m \in C : ~(m < n)
  <2>1. C \subseteq Nat
    OBVIOUS
  <2> HIDE DEF C
  <2>2. PICK n \in C : \A m \in C : <<m, n>> \notin OpToRel(<, Nat)
    BY <1>1, <2>1, NatLessThanWellFounded, WFMin
  <2>3. QED
    BY <2>1, <2>2 DEF OpToRel
<1>3. n # 0 /\ n - 1 \in 0..(L - 1) /\ n - 1 \notin C
  BY <1>2
<1>4. QED
  BY <1>2, <1>3

LEMMA SumToNext ==
    ASSUME NEW n \in Nat, NEW f, \A j \in 1..(n + 1) : f[j] \in Int
    PROVE  SumFunctionOnSet(f, 1..(n + 1)) = SumFunctionOnSet(f, 1..n) + f[n + 1]
<1>1. IsFiniteSet(1..(n + 1)) /\ IsFiniteSet(1..n)
  BY FS_Interval
<1>2. (1..(n + 1)) \ {n + 1} = 1..n
  OBVIOUS
<1>3. SumFunctionOnSet(f, 1..(n + 1)) = f[n + 1] + SumFunctionOnSet(f, 1..n)
  BY <1>1, <1>2, SumStep
<1>4. SumFunctionOnSet(f, 1..n) \in Int
  BY <1>1, SumType
<1>5. QED
  BY <1>3, <1>4

Lot == [quantity : Nat \ {0}, cost : Nat]
Quantities(s) == [j \in DOMAIN s |-> s[j].quantity]
Costs(s) == [j \in DOMAIN s |-> s[j].cost]

LEMMA LotSums ==
    ASSUME NEW s \in Seq(Lot)
    PROVE  SumFunction(Quantities(s)) \in Nat /\ SumFunction(Costs(s)) \in Nat
<1>1. IsFiniteSet(1..Len(s)) /\ DOMAIN s = 1..Len(s)
  BY FS_Interval
<1>2. \A j \in 1..Len(s) : /\ Quantities(s)[j] \in Nat
                           /\ Costs(s)[j] \in Nat
  <2>1. \A j \in 1..Len(s) : s[j] \in Lot
    OBVIOUS
  <2>2. QED
    BY <1>1, <2>1 DEF Lot, Quantities, Costs
<1>3. /\ SumFunctionOnSet(Quantities(s), 1..Len(s)) \in Nat
      /\ SumFunctionOnSet(Costs(s), 1..Len(s)) \in Nat
  <2>1. \A j \in 1..Len(s) : /\ Quantities(s)[j] \in Int /\ Quantities(s)[j] >= 0
                             /\ Costs(s)[j] \in Int /\ Costs(s)[j] >= 0
    BY <1>2
  <2>2. /\ SumFunctionOnSet(Quantities(s), 1..Len(s)) \in Int
        /\ SumFunctionOnSet(Quantities(s), 1..Len(s)) >= 0
    BY <1>1, <2>1, SumType
  <2>3. /\ SumFunctionOnSet(Costs(s), 1..Len(s)) \in Int
        /\ SumFunctionOnSet(Costs(s), 1..Len(s)) >= 0
    BY <1>1, <2>1, SumType
  <2>4. QED
    BY <2>2, <2>3
<1>4. DOMAIN Quantities(s) = 1..Len(s) /\ DOMAIN Costs(s) = 1..Len(s)
  BY <1>1 DEF Quantities, Costs
<1>5. QED
  BY <1>3, <1>4 DEF SumFunction

LEMMA LotAppended ==
    ASSUME NEW s \in Seq(Lot), NEW l \in Lot
    PROVE  /\ SumFunction(Quantities(Append(s, l)))
                = SumFunction(Quantities(s)) + l.quantity
           /\ SumFunction(Costs(Append(s, l))) = SumFunction(Costs(s)) + l.cost
<1> DEFINE n == Len(s)  t == Append(s, l)
<1>1. t \in Seq(Lot) /\ Len(t) = n + 1 /\ DOMAIN t = 1..(n + 1) /\ DOMAIN s = 1..n
  OBVIOUS
<1>2. t[n + 1] = l /\ \A j \in 1..n : t[j] = s[j]
  OBVIOUS
<1>3. \A j \in 1..(n + 1) : t[j] \in Lot
  BY <1>1
<1> n \in Nat
  OBVIOUS
<1> HIDE DEF n, t
<1>4. IsFiniteSet(1..n)
  BY FS_Interval
<1>5. /\ \A j \in 1..n : Quantities(t)[j] = Quantities(s)[j] /\ Costs(t)[j] = Costs(s)[j]
      /\ Quantities(t)[n + 1] = l.quantity /\ Costs(t)[n + 1] = l.cost
      /\ \A j \in 1..(n + 1) : Quantities(t)[j] \in Int /\ Costs(t)[j] \in Int
      /\ DOMAIN Quantities(s) = 1..n /\ DOMAIN Costs(s) = 1..n
      /\ DOMAIN Quantities(t) = 1..(n + 1) /\ DOMAIN Costs(t) = 1..(n + 1)
  BY <1>1, <1>2, <1>3 DEF Quantities, Costs, Lot
<1>6. SumFunctionOnSet(Quantities(t), 1..(n + 1))
        = SumFunctionOnSet(Quantities(t), 1..n) + l.quantity
  BY <1>5, SumToNext
<1>7. SumFunctionOnSet(Costs(t), 1..(n + 1))
        = SumFunctionOnSet(Costs(t), 1..n) + l.cost
  BY <1>5, SumToNext
<1>8. SumFunctionOnSet(Quantities(t), 1..n) = SumFunctionOnSet(Quantities(s), 1..n)
  BY <1>4, <1>5, SumEqual
<1>9. SumFunctionOnSet(Costs(t), 1..n) = SumFunctionOnSet(Costs(s), 1..n)
  BY <1>4, <1>5, SumEqual
<1>10. QED
  BY <1>5, <1>6, <1>7, <1>8, <1>9 DEF SumFunction, t

-----------------------------------------------------------------------------
(* Rounding *)

\* Rounding moves a quotient by half a quantum at most.
LEMMA Half ==
    ASSUME NEW n \in Int, NEW d \in Nat \ {0}
    PROVE  /\ HalfEven(n, d) \in Int
           /\ 2 * d * HalfEven(n, d) <= 2 * n + d
           /\ 2 * d * HalfEven(n, d) >= 2 * n - d
<1>1. PICK q \in Int : q = n \div d
  OBVIOUS
<1>2. PICK r \in 0..(d-1) : r = n % d
  OBVIOUS
<1>3. n = d * q + r
  BY <1>1, <1>2
<1>4. /\ HalfEven(n, d) \in {q, q + 1}
      /\ HalfEven(n, d) = q => 2 * r <= d
      /\ HalfEven(n, d) = q + 1 => 2 * r >= d
  BY <1>1, <1>2 DEF HalfEven
<1>5. QED
  BY <1>3, <1>4

LEMMA Mono ==
    ASSUME NEW m \in Int, NEW n \in Int, NEW d \in Nat \ {0}, m <= n
    PROVE  HalfEven(m, d) <= HalfEven(n, d)
<1>1. PICK q \in Int, r \in 0..(d-1) : q = n \div d /\ r = n % d /\ n = d * q + r
  OBVIOUS
<1>2. PICK p \in Int, s \in 0..(d-1) : p = m \div d /\ s = m % d /\ m = d * p + s
  OBVIOUS
<1>3. p <= q
  BY <1>1, <1>2
<1>4. CASE p < q
  BY <1>1, <1>2, <1>4 DEF HalfEven
<1>5. CASE p = q
  <2>1. s <= r
    BY <1>1, <1>2, <1>5
  <2>2. QED
    BY <1>1, <1>2, <1>5, <2>1 DEF HalfEven
<1>6. QED
  BY <1>3, <1>4, <1>5

LEMMA Exact ==
    ASSUME NEW c \in Int, NEW d \in Nat \ {0}
    PROVE  HalfEven(c * d, d) = c
<1>1. (c * d) \div d = c /\ (c * d) % d = 0
  OBVIOUS
<1>2. QED
  BY <1>1 DEF HalfEven

LEMMA Between ==
    ASSUME NEW n \in Int, NEW d \in Nat \ {0}, NEW b \in Int, NEW c \in Int,
           b * d <= n, n <= c * d
    PROVE  HalfEven(n, d) \in b..c
<1>1. HalfEven(b * d, d) = b /\ HalfEven(c * d, d) = c
  BY Exact
<1>2. b * d \in Int /\ c * d \in Int
  OBVIOUS
<1>3. HalfEven(b * d, d) <= HalfEven(n, d) /\ HalfEven(n, d) <= HalfEven(c * d, d)
  BY <1>2, Mono
<1>4. QED
  BY <1>1, <1>3, Half
-----------------------------------------------------------------------------
(* Lots that are sold *)

Acc == [left : Nat, cost : Nat, rest : Seq(Lot)]
Begin(shares) == [left |-> shares, cost |-> 0, rest |-> <<>>]
After(g, s, shares, m) ==
    g = [n \in 0..m |-> IF n = 0 THEN Begin(shares) ELSE ConsumeLot(g[n - 1], s[n])]

LEMMA AfterExists ==
    ASSUME NEW s, NEW shares, NEW L \in Nat
    PROVE  \E g : After(g, s, shares, L)
<1> DEFINE T == {m \in 0..L : \E g : After(g, s, shares, m)}
<1>1. 0 \in T
  <2> DEFINE h == [n \in 0..0 |-> Begin(shares)]
  <2>1. h = [n \in 0..0 |-> IF n = 0 THEN Begin(shares) ELSE ConsumeLot(h[n - 1], s[n])]
    OBVIOUS
  <2> HIDE DEF h
  <2>2. After(h, s, shares, 0)
    BY <2>1 DEF After
  <2>3. QED
    BY <2>2
<1>2. ASSUME NEW m \in 0..(L - 1), m \in T
      PROVE  m + 1 \in T
  <2>1. PICK g : After(g, s, shares, m)
    BY <1>2
  <2> DEFINE last == ConsumeLot(g[m], s[m + 1])
             h == [n \in 0..(m + 1) |-> IF n <= m THEN g[n] ELSE last]
  <2>2. \A n \in 0..m : g[n] = IF n = 0 THEN Begin(shares)
                               ELSE ConsumeLot(g[n - 1], s[n])
    BY <2>1 DEF After
  <2> HIDE DEF last
  <2>3. \A n \in 0..m : h[n] = g[n]
    OBVIOUS
  <2>4. h[m + 1] = last
    OBVIOUS
  <2>5. ASSUME NEW n \in 0..(m + 1)
        PROVE  h[n] = IF n = 0 THEN Begin(shares) ELSE ConsumeLot(h[n - 1], s[n])
    <3> HIDE DEF h
    <3>1. CASE n = 0
      BY <2>2, <2>3, <3>1
    <3>2. CASE n # 0 /\ n # m + 1
      <4>1. n \in 0..m /\ n - 1 \in 0..m
        BY <3>2
      <4>2. h[n - 1] = g[n - 1] /\ h[n] = g[n]
        BY <4>1, <2>3
      <4>3. QED
        BY <2>2, <3>2, <4>1, <4>2
    <3>3. CASE n = m + 1
      <4>1. h[n - 1] = g[m]
        BY <2>3, <3>3
      <4>2. QED
        BY <2>4, <3>3, <4>1 DEF last
    <3>4. QED
      BY <3>1, <3>2, <3>3
  <2>6. h = [n \in 0..(m + 1) |-> h[n]]
    OBVIOUS
  <2> HIDE DEF h
  <2>7. h = [n \in 0..(m + 1) |-> IF n = 0 THEN Begin(shares)
                                  ELSE ConsumeLot(h[n - 1], s[n])]
    BY <2>5, <2>6, Zenon
  <2>8. After(h, s, shares, m + 1)
    BY <2>7 DEF After
  <2>9. QED
    BY <2>8
<1>3. L \in T
  <2> HIDE DEF T
  <2>1. QED
    BY <1>1, <1>2, CountUp
<1>4. QED
  BY <1>3

\* What remains of some lots after one more, t, has been drawn on
LEMMA OneLot ==
    ASSUME NEW a \in Acc, NEW l \in Lot, NEW sold \in Int, NEW spent \in Int,
           NEW shares \in Nat,
           a.left > 0 => a.rest = <<>>,
           shares - a.left + SumFunction(Quantities(a.rest)) = sold,
           a.cost + SumFunction(Costs(a.rest)) = spent
    PROVE  LET b == ConsumeLot(a, l) IN
           /\ b \in Acc
           /\ b.left > 0 => b.rest = <<>>
           /\ shares - b.left + SumFunction(Quantities(b.rest)) = sold + l.quantity
           /\ b.cost + SumFunction(Costs(b.rest)) = spent + l.cost
<1>1. PICK left \in Nat, paid \in Nat, rest \in Seq(Lot) :
         a = [left |-> left, cost |-> paid, rest |-> rest]
  BY DEF Acc
<1>2. PICK q \in Nat \ {0}, c \in Nat : l = [quantity |-> q, cost |-> c]
  BY DEF Lot
<1>3. PICK Q \in Nat, C \in Nat :
         Q = SumFunction(Quantities(rest)) /\ C = SumFunction(Costs(rest))
  BY LotSums
<1>4. /\ left > 0 => rest = <<>>
      /\ shares - left + Q = sold
      /\ paid + C = spent
  BY <1>1, <1>3
<1>5. CASE left >= q
  <2>1. ConsumeLot(a, l) = [left |-> left - q, cost |-> paid + c, rest |-> rest]
    BY <1>1, <1>2, <1>5 DEF ConsumeLot
  <2>2. left > 0 /\ left - q \in Nat /\ paid + c \in Nat
    BY <1>5
  <2>3. PICK b : b = ConsumeLot(a, l)
    OBVIOUS
  <2>4. /\ b.left = left - q /\ b.cost = paid + c /\ b.rest = rest /\ b \in Acc
    BY <2>1, <2>2, <2>3 DEF Acc
  <2>5. SumFunction(Quantities(b.rest)) = Q /\ SumFunction(Costs(b.rest)) = C
    BY <1>3, <2>4
  <2>6. /\ shares - b.left + SumFunction(Quantities(b.rest)) = sold + l.quantity
        /\ b.cost + SumFunction(Costs(b.rest)) = spent + l.cost
    BY <1>2, <1>4, <2>4, <2>5
  <2>7. QED
    BY <1>4, <2>2, <2>3, <2>4, <2>6
<1>6. CASE left < q
  <2> DEFINE part == HalfEven(c * left, q)
             l2 == [quantity |-> q - left, cost |-> c - part]
  <2>1. part \in 0..c
    <3>1. c * left \in Int /\ 0 * q <= c * left /\ c * left <= c * q
      BY <1>6
    <3>2. QED
      BY <3>1, Between
  <2>2. ConsumeLot(a, l) = [left |-> 0, cost |-> paid + part, rest |-> Append(rest, l2)]
    <3>1. /\ a.left = left /\ a.cost = paid /\ a.rest = rest
          /\ l.quantity = q /\ l.cost = c
          /\ left < q /\ left # q
      BY <1>1, <1>2, <1>6
    <3>2. (IF a.left < l.quantity THEN a.left ELSE l.quantity) = left
      BY <3>1
    <3>3. ConsumeLot(a, l) = [left |-> left - left, cost |-> paid + part,
                              rest |-> Append(rest, l2)]
      BY <3>1, <3>2, Zenon DEF ConsumeLot
    <3>4. QED
      BY <3>3
  <2> HIDE DEF part
  <2>3. l2 \in Lot /\ l2.quantity = q - left /\ l2.cost = c - part
    BY <1>6, <2>1 DEF Lot
  <2> HIDE DEF l2
  <2>4. /\ SumFunction(Quantities(Append(rest, l2))) = Q + (q - left)
        /\ SumFunction(Costs(Append(rest, l2))) = C + (c - part)
    BY <1>3, <2>3, LotAppended
  <2>5. Append(rest, l2) \in Seq(Lot)
    BY <2>3
  <2>6. PICK b : b = ConsumeLot(a, l)
    OBVIOUS
  <2>7. b.left = 0 /\ b.cost = paid + part /\ b.rest = Append(rest, l2) /\ b \in Acc
    BY <2>1, <2>2, <2>5, <2>6 DEF Acc
  <2>8. shares - b.left + SumFunction(Quantities(b.rest)) = sold + l.quantity
    BY <1>2, <1>4, <2>4, <2>7
  <2>9. b.cost + SumFunction(Costs(b.rest)) = spent + l.cost
    BY <1>2, <1>4, <2>1, <2>4, <2>7
  <2>10. QED
    BY <2>6, <2>7, <2>8, <2>9
<1>7. QED
  BY <1>5, <1>6

LEMMA ConsumedIs ==
    ASSUME NEW i
    PROVE  \A shares : Consumed(i, shares) =
              (CHOOSE g : After(g, lots[i], shares, Len(lots[i])))[Len(lots[i])]
BY DEF Consumed, After, Begin

\* Selling no more than is held uses up exactly the shares sold, and neither
\* shares nor cost appear or get lost.
LEMMA ConsumedKeeps ==
    ASSUME NEW i, lots[i] \in Seq(Lot), NEW shares \in Nat,
           shares <= SumFunction(Quantities(lots[i]))
    PROVE  LET b == Consumed(i, shares) IN
           /\ b.cost \in Nat /\ b.rest \in Seq(Lot)
           /\ SumFunction(Quantities(b.rest)) = SumFunction(Quantities(lots[i])) - shares
           /\ SumFunction(Costs(b.rest)) = SumFunction(Costs(lots[i])) - b.cost
<1> DEFINE s == lots[i]  L == Len(s)
           A == CHOOSE g : After(g, s, shares, L)
<1>1. Consumed(i, shares) = A[L]
  BY ConsumedIs
<1>2. s \in Seq(Lot) /\ L \in Nat /\ DOMAIN s = 1..L
  OBVIOUS
<1> HIDE DEF s, L
<1>3. After(A, s, shares, L)
  BY <1>2, AfterExists
<1> HIDE DEF A
<1>4. \A n \in 0..L : A[n] = IF n = 0 THEN Begin(shares) ELSE ConsumeLot(A[n - 1], s[n])
  BY <1>3 DEF After
<1> DEFINE P(n) == /\ A[n] \in Acc
                   /\ A[n].left > 0 => A[n].rest = <<>>
                   /\ shares - A[n].left + SumFunction(Quantities(A[n].rest))
                        = SumFunctionOnSet(Quantities(s), 1..n)
                   /\ A[n].cost + SumFunction(Costs(A[n].rest))
                        = SumFunctionOnSet(Costs(s), 1..n)
           T == {n \in 0..L : P(n)}
<1>5. P(0)
  <2>1. A[0] = Begin(shares)
    BY <1>2, <1>4
  <2>2. <<>> \in Seq(Lot) /\ Quantities(<<>>) = <<>> /\ Costs(<<>>) = <<>>
    BY DEF Quantities, Costs
  <2>3. SumFunction(<<>>) = 0
    BY SumEmpty DEF SumFunction
  <2>4. 1..0 = {}
    OBVIOUS
  <2>5. QED
    BY <2>1, <2>2, <2>3, <2>4, SumEmpty DEF Begin, Acc
<1>6. ASSUME NEW n \in 0..(L - 1), P(n)
      PROVE  P(n + 1)
  <2>1. s[n + 1] \in Lot /\ n \in Nat /\ n + 1 \in 0..L
    BY <1>2
  <2>2. A[n + 1] = ConsumeLot(A[n], s[n + 1])
    BY <1>4, <2>1
  <2>3. \A j \in 1..(n + 1) : /\ Quantities(s)[j] \in Int /\ Quantities(s)[j] = s[j].quantity
                              /\ Costs(s)[j] \in Int /\ Costs(s)[j] = s[j].cost
    <3>1. \A j \in 1..(n + 1) : s[j] \in Lot /\ j \in DOMAIN s
      BY <1>2, <2>1
    <3>2. QED
      BY <3>1 DEF Quantities, Costs, Lot
  <2>4. /\ SumFunctionOnSet(Quantities(s), 1..(n + 1))
             = SumFunctionOnSet(Quantities(s), 1..n) + s[n + 1].quantity
        /\ SumFunctionOnSet(Costs(s), 1..(n + 1))
             = SumFunctionOnSet(Costs(s), 1..n) + s[n + 1].cost
    BY <2>1, <2>3, SumToNext
  <2>5. /\ SumFunctionOnSet(Quantities(s), 1..n) \in Int
        /\ SumFunctionOnSet(Costs(s), 1..n) \in Int
    <3>1. IsFiniteSet(1..n)
      BY FS_Interval
    <3>2. QED
      BY <2>3, <3>1, SumType
  <2>6. QED
    BY <1>6, <2>1, <2>2, <2>4, <2>5, OneLot
<1>7. P(L)
  <2>1. 0 \in T /\ \A n \in 0..(L - 1) : n \in T => n + 1 \in T
    BY <1>2, <1>5, <1>6
  <2> HIDE DEF T
  <2>2. L \in T
    BY <1>2, <2>1, CountUp
  <2>3. QED
    BY <2>2 DEF T
<1>8. /\ SumFunctionOnSet(Quantities(s), 1..L) = SumFunction(Quantities(s))
      /\ SumFunctionOnSet(Costs(s), 1..L) = SumFunction(Costs(s))
  BY <1>2 DEF SumFunction, Quantities, Costs
<1>9. A[L] \in Acc /\ A[L].left = 0
  <2>1. A[L] \in Acc /\ A[L].left \in Nat /\ A[L].rest \in Seq(Lot)
    BY <1>7 DEF Acc
  <2>2. CASE A[L].left > 0
    <3>1. A[L].rest = <<>>
      BY <1>7, <2>2
    <3>2. SumFunction(Quantities(A[L].rest)) = 0
      BY <3>1, SumEmpty DEF SumFunction, Quantities
    <3>3. shares <= SumFunction(Quantities(s)) /\ SumFunction(Quantities(s)) \in Nat
      BY <1>2, LotSums DEF s
    <3>4. QED
      BY <1>7, <1>8, <2>1, <2>2, <3>2, <3>3
  <2>3. QED
    BY <2>1, <2>2
<1>10. /\ A[L].cost \in Nat /\ A[L].rest \in Seq(Lot)
       /\ SumFunction(Quantities(A[L].rest)) \in Nat
       /\ SumFunction(Costs(A[L].rest)) \in Nat
  BY <1>9, LotSums DEF Acc
<1>11. /\ shares + SumFunction(Quantities(A[L].rest)) = SumFunction(Quantities(s))
       /\ A[L].cost + SumFunction(Costs(A[L].rest)) = SumFunction(Costs(s))
  BY <1>7, <1>8, <1>9, <1>10
<1>12. /\ SumFunction(Quantities(A[L].rest)) = SumFunction(Quantities(s)) - shares
       /\ SumFunction(Costs(A[L].rest)) = SumFunction(Costs(s)) - A[L].cost
  BY <1>10, <1>11
<1>13. QED
  BY <1>1, <1>10, <1>12 DEF s
-----------------------------------------------------------------------------
(* Prices, fees and caps *)

LEMMA MinIs ==
    ASSUME NEW S, S \subseteq Nat, S # {}
    PROVE  Min(S) \in S /\ \A y \in S : Min(S) <= y
<1>1. PICK x \in S : \A y \in S : <<y, x>> \notin OpToRel(<, Nat)
  BY NatLessThanWellFounded, WFMin
<1>2. \A y \in S : ~(y < x)
  BY <1>1 DEF OpToRel
<1>3. \A y \in S : x <= y
  BY <1>2
<1>4. QED
  BY <1>3 DEF Min

LEMMA LeftIs ==
    ASSUME NEW x \in Int
    PROVE  Left(x) \in Nat /\ (Left(x) > 0 => Left(x) = x)
<1>1. \E y \in {x, 0} : \A z \in {x, 0} : y >= z
  OBVIOUS
<1>2. Left(x) \in {x, 0} /\ \A z \in {x, 0} : Left(x) >= z
  BY <1>1 DEF Left, Max
<1>3. QED
  BY <1>2

\* As many as a limit allows do not exceed it.
LEMMA CapHolds ==
    ASSUME NEW limit \in Int, NEW unit \in Nat \ {0}
    PROVE  /\ Left(limit) \div unit \in Nat
           /\ \A n \in Nat \ {0} : n <= Left(limit) \div unit => n * unit <= limit
<1>1. PICK x \in Nat : x = Left(limit) /\ (x > 0 => x = limit)
  BY LeftIs
<1>2. PICK q \in Int : q = x \div unit
  OBVIOUS
<1>3. q >= 0 /\ unit * q <= x
  BY <1>2
<1>4. ASSUME NEW n \in Nat \ {0}, n <= q
      PROVE  n * unit <= limit
  <2>1. n * unit <= x
    BY <1>3, <1>4
  <2>2. n * unit > 0
    OBVIOUS
  <2>3. QED
    BY <1>1, <2>1, <2>2
<1>5. QED
  BY <1>1, <1>2, <1>3, <1>4

LEMMA Rates ==
    /\ Scale \in Nat \ {0} /\ FeeRate \in 0..Scale /\ SlippageRate \in 0..Scale
    /\ BufferRate \in 0..Scale
    /\ SlotsPerSession \in Nat \ {0} /\ Sessions \in Nat \ {0}
    /\ InitialCash \in Nat /\ MaxStrategyNotional \in Nat
    /\ MaxGrossExposure \in Nat /\ MaxInstrumentExposure \in Nat
    /\ IsFiniteSet(Instruments) /\ Prices \subseteq Nat \ {0}
    /\ Capacities \subseteq Nat /\ PositionLimits \subseteq Nat
    /\ Spans \subseteq Nat \ {0}
BY BookAssumption

LEMMA Scaled ==
    ASSUME NEW n \in Int, NEW b \in Int, NEW c \in Int,
           b * Scale <= n, n <= c * Scale
    PROVE  HalfEven(n, Scale) \in b..c
<1>1. Scale \in Nat \ {0}
  BY Rates
<1>2. QED
  BY <1>1, Between

LEMMA FillPriceIs ==
    ASSUME NEW base \in Nat
    PROVE  /\ FillPrice("BUY", base) \in Nat /\ FillPrice("BUY", base) >= base
           /\ FillPrice("SELL", base) \in Nat
<1>1. /\ base * (Scale + SlippageRate) \in Int
      /\ base * Scale <= base * (Scale + SlippageRate)
      /\ base * (Scale + SlippageRate) <= (2 * base) * Scale
  BY Rates
<1>2. HalfEven(base * (Scale + SlippageRate), Scale) \in base..(2 * base)
  BY <1>1, Scaled
<1>3. /\ base * (Scale - SlippageRate) \in Int
      /\ 0 * Scale <= base * (Scale - SlippageRate)
      /\ base * (Scale - SlippageRate) <= base * Scale
  BY Rates
<1>4. HalfEven(base * (Scale - SlippageRate), Scale) \in 0..base
  BY <1>3, Scaled
<1>5. QED
  BY <1>2, <1>4 DEF FillPrice

LEMMA FeeIs ==
    ASSUME NEW gross \in Nat
    PROVE  Fee(gross) \in 0..gross
<1>1. gross * FeeRate \in Int /\ 0 * Scale <= gross * FeeRate /\ gross * FeeRate <= gross * Scale
  BY Rates
<1>2. QED
  BY <1>1, Scaled DEF Fee

LEMMA UnitCashIs ==
    ASSUME NEW price \in Nat \ {0}
    PROVE  UnitCash(price) \in Nat \ {0}
BY FeeIs DEF UnitCash

LEMMA BuyingPowerIs ==
    ASSUME cash \in Int
    PROVE  BuyingPower \in Int /\ HalfEven(cash * BufferRate, Scale) \in Int
<1>1. cash * BufferRate \in Int /\ Scale \in Nat \ {0}
  BY Rates
<1>2. HalfEven(cash * BufferRate, Scale) \in Int
  BY <1>1, Half
<1>3. QED
  BY <1>2 DEF BuyingPower

-----------------------------------------------------------------------------
(* Sums over orders and positions *)

LEMMA UpToIsFinite ==
    ASSUME NEW m \in Nat
    PROVE  IsFiniteSet(1..m)
BY FS_Interval

LEMMA SumChanged ==
    ASSUME NEW S, IsFiniteSet(S), NEW f, \A y \in S : f[y] \in Int,
           NEW g, NEW x \in S, g[x] \in Int, \A y \in S \ {x} : g[y] = f[y]
    PROVE  SumFunctionOnSet(g, S) = SumFunctionOnSet(f, S) - f[x] + g[x]
<1>1. \A y \in S : g[y] \in Int
  <2> TAKE y \in S
  <2>1. CASE y = x
    BY <2>1
  <2>2. CASE y # x
    <3>1. y \in S \ {x}
      BY <2>2
    <3>2. QED
      BY <3>1
  <2>3. QED
    BY <2>1, <2>2
<1>3. IsFiniteSet(S \ {x})
  BY FS_Subset
<1>4. SumFunctionOnSet(g, S \ {x}) = SumFunctionOnSet(f, S \ {x})
  BY <1>3, SumEqual
<1>5. SumFunctionOnSet(f, S \ {x}) \in Int
  BY <1>3, SumType
<1>6. /\ SumFunctionOnSet(f, S) = f[x] + SumFunctionOnSet(f, S \ {x})
      /\ SumFunctionOnSet(g, S) = g[x] + SumFunctionOnSet(g, S \ {x})
  BY <1>1, SumStep
<1>7. f[x] \in Int
  OBVIOUS
<1>8. QED
  BY <1>4, <1>5, <1>6, <1>7

LEMMA ExposureIs ==
    ASSUME cost \in [Instruments -> Nat]
    PROVE  Exposure \in Nat
<1>1. \A i \in Instruments : cost[i] \in Int /\ cost[i] >= 0
  OBVIOUS
<1>2. Exposure \in Int /\ Exposure >= 0
  BY <1>1, Rates, SumType DEF Exposure
<1>3. QED
  BY <1>2

LEMMA ReservationsAre ==
    ASSUME orders \in Seq(Order), NEW k, NEW i
    PROVE  /\ ReservedCash(k) \in Nat /\ ReservedNotional(k) \in Nat
           /\ InstrumentReserved(i, k) \in Nat
           /\ SharesReserved(i, k) \in Nat
<1>1. IsFiniteSet(DOMAIN orders) /\ DOMAIN orders = 1..Len(orders)
  BY FS_Interval
<1>2. /\ IsFiniteSet(OpenExcept(k))
      /\ \A side : IsFiniteSet(ReservedIn(i, side, k))
  <2>1. OpenExcept(k) \subseteq DOMAIN orders
    BY DEF OpenExcept
  <2>2. \A side : ReservedIn(i, side, k) \subseteq DOMAIN orders
    BY DEF ReservedIn, OpenExcept
  <2>3. QED
    BY <1>1, <2>1, <2>2, FS_Subset
<1>3. \A j \in DOMAIN orders : orders[j] \in Order
  BY <1>1
<1>4. \A j \in DOMAIN orders : /\ Cashes[j] \in Nat /\ Notionals[j] \in Nat
                               /\ Shares[j] \in Nat
  BY <1>3 DEF Cashes, Notionals, Shares, Order
<1>5. \A T \in SUBSET DOMAIN orders : \A j \in T :
         /\ Cashes[j] \in Int /\ Cashes[j] >= 0
         /\ Notionals[j] \in Int /\ Notionals[j] >= 0
         /\ Shares[j] \in Int /\ Shares[j] >= 0
  BY <1>4
<1>6. \A T \in SUBSET DOMAIN orders : IsFiniteSet(T) =>
         /\ SumFunctionOnSet(Cashes, T) \in Nat
         /\ SumFunctionOnSet(Notionals, T) \in Nat
         /\ SumFunctionOnSet(Shares, T) \in Nat
  <2> TAKE T \in SUBSET DOMAIN orders
  <2> HAVE IsFiniteSet(T)
  <2>1. SumFunctionOnSet(Cashes, T) \in Int /\ SumFunctionOnSet(Cashes, T) >= 0
    BY <1>5, SumType
  <2>2. SumFunctionOnSet(Notionals, T) \in Int /\ SumFunctionOnSet(Notionals, T) >= 0
    BY <1>5, SumType
  <2>3. SumFunctionOnSet(Shares, T) \in Int /\ SumFunctionOnSet(Shares, T) >= 0
    BY <1>5, SumType
  <2>4. QED
    BY <2>1, <2>2, <2>3
<1>7. OpenExcept(k) \in SUBSET DOMAIN orders
      /\ \A side : ReservedIn(i, side, k) \in SUBSET DOMAIN orders
  BY DEF OpenExcept, ReservedIn
<1>8. QED
  BY <1>2, <1>6, <1>7 DEF ReservedCash, ReservedNotional, InstrumentReserved, SharesReserved
-----------------------------------------------------------------------------
(* The inductive invariant *)

\* An order lives in the session that is open when it becomes eligible.
InSession ==
    \A k \in DOMAIN orders :
        /\ orders[k].submitted <= orders[k].eligible
        /\ orders[k].expires = Closes(Day(orders[k].eligible))

\* A bar that fills began before each open order expires.
BarIsOpen ==
    Filling =>
        /\ bar.starts <= now
        /\ \A k \in DOMAIN orders : IsOpen(orders[k]) => bar.starts < orders[k].expires

\* An open SELL reserves what is left of it.
SellsReserve ==
    \A k \in DOMAIN orders :
        IsOpen(orders[k]) /\ orders[k].side = "SELL" =>
            orders[k].reservedQuantity = orders[k].remaining

BookInv ==
    /\ TypeOK
    /\ due \subseteq Ending(now)
    /\ InSession
    /\ BarIsOpen
    /\ SellsReserve
    /\ SellsAreCovered
    /\ BookAgrees
    /\ WithinExposure

-----------------------------------------------------------------------------
(* Time *)

LEMMA DayIs ==
    ASSUME NEW t \in Nat
    PROVE  /\ Day(t) \in Nat /\ Opens(Day(t)) \in Nat
           /\ Opens(Day(t)) <= t /\ t <= Closes(Day(t))
           /\ \A d \in Nat : Opens(d) <= t /\ t <= Closes(d) => Day(t) = d
<1>1. PICK p \in Nat \ {0} : p = SlotsPerSession + 1
  BY Rates
<1>2. PICK q \in Int, r \in 0..(p - 1) : q = t \div p /\ t = p * q + r
  <2>1. t = p * (t \div p) + (t % p) /\ t \div p \in Int /\ t % p \in 0..(p - 1)
    OBVIOUS
  <2>2. QED
    BY <2>1
<1>3. Day(t) = q /\ q \in Nat
  BY <1>1, <1>2 DEF Day
<1>4. \A d \in Int : Opens(d) = d * p /\ Closes(d) = d * p + (p - 1)
  BY <1>1, Rates DEF Opens, Closes
<1>5. \A d \in Nat : d * p <= t /\ t <= d * p + (p - 1) => q = d
  BY <1>2
<1>6. /\ q * p \in Nat /\ q * p <= t /\ t <= q * p + (p - 1)
  BY <1>2, <1>3
<1>7. /\ Day(t) \in Nat /\ Opens(Day(t)) \in Nat
      /\ Opens(Day(t)) <= t /\ t <= Closes(Day(t))
  <2>1. Opens(Day(t)) = q * p /\ Closes(Day(t)) = q * p + (p - 1)
    BY <1>3, <1>4
  <2>2. QED
    BY <1>3, <1>6, <2>1
<1>8. \A d \in Nat : Opens(d) <= t /\ t <= Closes(d) => Day(t) = d
  <2> TAKE d \in Nat
  <2>1. Opens(d) = d * p /\ Closes(d) = d * p + (p - 1)
    BY <1>4
  <2>2. QED
    BY <1>3, <1>5, <2>1
<1>9. QED
  BY <1>7, <1>8

LEMMA SessionIs ==
    ASSUME NEW d \in Nat
    PROVE  /\ Opens(d) \in Nat /\ Closes(d) \in Nat
           /\ Opens(d + 1) = Closes(d) + 1
           /\ Day(Opens(d)) = d /\ Day(Closes(d)) = d
           /\ Opens(d) < Closes(d)
<1>1. Opens(d) \in Nat /\ Closes(d) = Opens(d) + SlotsPerSession
  BY Rates DEF Opens, Closes
<1>2. Opens(d + 1) = Opens(d) + SlotsPerSession + 1
  BY Rates DEF Opens
<1>3. Closes(d) \in Nat /\ Opens(d) < Closes(d)
  BY <1>1, Rates
<1>4. Day(Opens(d)) = d
  BY <1>1, <1>3, DayIs
<1>5. Day(Closes(d)) = d
  BY <1>1, <1>3, DayIs
<1>6. QED
  BY <1>1, <1>2, <1>3, <1>4, <1>5, Rates

\* A bar that ends in a session began in it.
LEMMA EndingIs ==
    ASSUME now \in Nat, NEW b \in Ending(now)
    PROVE  /\ b \in [instrument : Instruments, span : Spans]
           /\ Starts(b) \in Nat /\ Starts(b) < now
<1>1. /\ b \in [instrument : Instruments, span : Spans]
      /\ now > Opens(Day(now))
  BY DEF Ending
<1>2. PICK s \in Nat \ {0} : s = b.span
  BY <1>1, Rates
<1>3. PICK o \in Nat : o = Opens(Day(now))
  BY DayIs
<1>4. PICK x \in Nat : now = o + x + 1
  <2>1. (now - o) - 1 \in Nat /\ now = o + ((now - o) - 1) + 1
    BY <1>1, <1>3
  <2>2. QED
    BY <2>1
<1>5. PICK q \in Nat : q = (x \div s) * s /\ q <= x
  <2>1. x \div s \in Nat /\ x = s * (x \div s) + (x % s) /\ x % s \in 0..(s - 1)
    OBVIOUS
  <2>2. (x \div s) * s = s * (x \div s) /\ s * (x \div s) \in Nat
    BY <2>1
  <2>3. QED
    BY <2>1, <2>2
<1>6. Starts(b) = o + q
  <2>1. (now - o) - 1 = x
    BY <1>4
  <2>2. QED
    BY <1>2, <1>3, <1>5, <2>1 DEF Starts
<1>7. QED
  BY <1>1, <1>4, <1>5, <1>6

-----------------------------------------------------------------------------
(* Orders *)

LEMMA CurrentIs ==
    ASSUME TypeOK, NEW k, Current(k)
    PROVE  /\ Filling /\ k \in DOMAIN orders /\ orders[k] \in Order
           /\ k \in Nat
           /\ IsOpen(orders[k]) /\ orders[k].instrument = bar.instrument
           /\ Eligible(orders[k])
           /\ bar \in [instrument : Instruments, starts : Nat, price : Prices,
                       capacity : Nat \ {0}, before : Nat, cursor : Nat]
<1>1. orders \in Seq(Order)
  BY DEF TypeOK
<1>2. Waiting \subseteq Nat /\ Waiting # {}
  BY <1>1 DEF Waiting, Current
<1>3. k \in Waiting
  BY <1>2, MinIs DEF Current
<1>4. QED
  BY <1>1, <1>3 DEF Waiting, Current, TypeOK, Filling

\* A fill is within the bar's capacity and the order; a SELL within what is
\* held, a BUY within buying power and the limits.
LEMMA FillIs ==
    ASSUME TypeOK, NEW k, Current(k)
    PROVE  LET n == FillQuantity(k)  o == orders[k]
               price == FillPrice("BUY", bar.price) IN
           /\ n \in Nat /\ n <= bar.capacity /\ n <= o.remaining
           /\ o.side = "SELL" => n <= quantity[o.instrument]
           /\ o.side = "BUY" /\ n > 0 =>
                /\ price \in Nat \ {0}
                /\ n * UnitCash(price) <= BuyingPower - ReservedCash(k)
                /\ n * price <= MaxGrossExposure - Exposure - ReservedNotional(k)
                /\ n * price <= MaxInstrumentExposure - cost[o.instrument]
                                  - InstrumentReserved(o.instrument, k)
<1> DEFINE o == orders[k]  price == FillPrice("BUY", bar.price)  n == FillQuantity(k)
           i == o.instrument
<1>1. /\ o \in Order /\ bar.capacity \in Nat /\ bar.price \in Nat \ {0}
      /\ o.remaining \in Nat /\ i \in Instruments /\ o.side \in {"BUY", "SELL"}
      /\ o.limit \in Nat
  BY CurrentIs, Rates DEF Order
<1>2. quantity[i] \in Nat /\ cost[i] \in Nat /\ cash \in Int
  BY <1>1 DEF TypeOK
<1>3. price \in Nat \ {0}
  BY <1>1, FillPriceIs
<1>4. UnitCash(price) \in Nat \ {0}
  BY <1>3, UnitCashIs
<1>5. /\ BuyingPower - ReservedCash(k) \in Int
      /\ MaxStrategyNotional - Exposure - ReservedCash(k) \in Int
      /\ MaxGrossExposure - Exposure - ReservedNotional(k) \in Int
      /\ o.limit - quantity[i] * price - InstrumentReserved(i, k) \in Int
      /\ MaxInstrumentExposure - cost[i] - InstrumentReserved(i, k) \in Int
  <2>1. /\ ReservedCash(k) \in Nat /\ ReservedNotional(k) \in Nat
        /\ InstrumentReserved(i, k) \in Nat
    BY ReservationsAre DEF TypeOK
  <2>2. Exposure \in Nat /\ BuyingPower \in Int
    BY <1>2, ExposureIs, BuyingPowerIs DEF TypeOK
  <2>3. quantity[i] * price \in Nat
    BY <1>2, <1>3
  <2>4. QED
    BY <1>1, <1>2, <2>1, <2>2, <2>3, Rates
<1> HIDE DEF price, o, i, n
<1>6. CASE o.side = "SELL"
  <2>1. n = Min({bar.capacity, o.remaining, quantity[i]})
    BY <1>6 DEF FillQuantity, n, o, i
  <2>2. {bar.capacity, o.remaining, quantity[i]} \subseteq Nat
    BY <1>1, <1>2
  <2>3. /\ n \in {bar.capacity, o.remaining, quantity[i]}
        /\ \A y \in {bar.capacity, o.remaining, quantity[i]} : n <= y
    BY <2>1, <2>2, MinIs
  <2>4. QED
    BY <1>6, <2>2, <2>3 DEF n, o, i
<1>7. CASE o.side = "BUY"
  <2>1. n = Min(BuyCaps(o, k, price))
    BY <1>7 DEF FillQuantity, n, o, i, price
  <2> DEFINE c1 == Left(BuyingPower - ReservedCash(k)) \div UnitCash(price)
             c2 == Left(MaxStrategyNotional - Exposure - ReservedCash(k)) \div UnitCash(price)
             c3 == Left(MaxGrossExposure - Exposure - ReservedNotional(k)) \div price
             c4 == Left(o.limit - quantity[i] * price - InstrumentReserved(i, k)) \div price
             c5 == Left(MaxInstrumentExposure - cost[i] - InstrumentReserved(i, k)) \div price
  <2>2. c1 \in Nat /\ \A m \in Nat \ {0} :
           m <= c1 => m * UnitCash(price) <= BuyingPower - ReservedCash(k)
    BY <1>4, <1>5, CapHolds
  <2>3. c2 \in Nat
    BY <1>4, <1>5, CapHolds
  <2>4. c3 \in Nat /\ \A m \in Nat \ {0} :
           m <= c3 => m * price <= MaxGrossExposure - Exposure - ReservedNotional(k)
    BY <1>3, <1>5, CapHolds
  <2>5. c4 \in Nat
    BY <1>3, <1>5, CapHolds
  <2>6. c5 \in Nat /\ \A m \in Nat \ {0} :
           m <= c5 => m * price <= MaxInstrumentExposure - cost[i] - InstrumentReserved(i, k)
    BY <1>3, <1>5, CapHolds
  <2>7. BuyCaps(o, k, price) = {bar.capacity, o.remaining, c1, c2, c3, c4, c5}
    BY DEF BuyCaps, i
  <2> HIDE DEF c1, c2, c3, c4, c5
  <2>8. BuyCaps(o, k, price) \subseteq Nat /\ BuyCaps(o, k, price) # {}
    BY <1>1, <2>2, <2>3, <2>4, <2>5, <2>6, <2>7
  <2>9. n \in Nat /\ \A y \in BuyCaps(o, k, price) : n <= y
    BY <2>1, <2>8, MinIs
  <2>10. n <= bar.capacity /\ n <= o.remaining /\ n <= c1 /\ n <= c3 /\ n <= c5
    BY <2>7, <2>9
  <2>11. n > 0 => /\ n * UnitCash(price) <= BuyingPower - ReservedCash(k)
                  /\ n * price <= MaxGrossExposure - Exposure - ReservedNotional(k)
                  /\ n * price <= MaxInstrumentExposure - cost[i] - InstrumentReserved(i, k)
    BY <2>2, <2>4, <2>6, <2>9, <2>10
  <2>12. QED
    BY <1>3, <1>7, <2>9, <2>10, <2>11 DEF n, o, i, price
<1>8. QED
  BY <1>1, <1>6, <1>7

\* Reserving anew changes what is reserved only.
LEMMA ReservingIs ==
    ASSUME NEW o \in Order
    PROVE  /\ Reserving(o) \in Order
           /\ \A r \in {Reserving(o), Released(o)} :
                /\ r \in Order
                /\ r.instrument = o.instrument /\ r.side = o.side
                /\ r.remaining = o.remaining /\ r.filled = o.filled
                /\ r.submitted = o.submitted /\ r.eligible = o.eligible
                /\ r.expires = o.expires /\ r.reference = o.reference
                /\ r.limit = o.limit /\ r.status = o.status
           /\ o.side = "SELL" => Reserving(o).reservedQuantity = o.remaining
<1>1. FillPrice("BUY", o.reference) \in Nat /\ o.remaining \in Nat
  BY FillPriceIs DEF Order
<1> DEFINE notional == FillPrice("BUY", o.reference) * o.remaining
<1>2. notional \in Nat
  BY <1>1
<1>3. notional + Fee(notional) \in Nat
  BY <1>2, FeeIs
<1>4. Reserving(o) = IF o.side = "SELL" THEN [o EXCEPT !.reservedQuantity = o.remaining]
                     ELSE [o EXCEPT !.reservedNotional = notional,
                                    !.reservedCash = notional + Fee(notional)]
  BY DEF Reserving
<1> HIDE DEF notional
<1>5. Reserving(o) \in Order
  BY <1>1, <1>2, <1>3, <1>4 DEF Order
<1>6. Released(o) \in Order
  BY DEF Order, Released
<1>7. QED
  BY <1>4, <1>5, <1>6 DEF Order, Released

LEMMA FilledIs ==
    ASSUME NEW o \in Order, NEW n \in Nat \ {0}, n <= o.remaining
    PROVE  LET f == Filled(o, n) IN
           /\ f \in Order
           /\ f.instrument = o.instrument /\ f.side = o.side
           /\ f.submitted = o.submitted /\ f.eligible = o.eligible
           /\ f.expires = o.expires /\ f.filled = o.filled + n
           /\ f.remaining = o.remaining - n
           /\ IsOpen(f) <=> n < o.remaining
           /\ o.side = "SELL" /\ n < o.remaining =>
                 f.reservedQuantity = o.remaining - n
<1>1. PICK left \in Nat, done \in Nat : left = o.remaining - n /\ done = o.filled + n
  BY DEF Order
<1> DEFINE next == [o EXCEPT !.remaining = left, !.filled = done]
<1>2. /\ next \in Order /\ next.instrument = o.instrument /\ next.side = o.side
      /\ next.submitted = o.submitted /\ next.eligible = o.eligible
      /\ next.expires = o.expires /\ next.filled = done /\ next.remaining = left
  BY DEF Order
<1>3. Filled(o, n) = IF n = o.remaining THEN [Released(next) EXCEPT !.status = "FILLED"]
                     ELSE [Reserving(next) EXCEPT !.status = "PARTIALLY_FILLED"]
  BY <1>1 DEF Filled
<1> HIDE DEF next
<1>4. CASE n = o.remaining
  <2>1. PICK r \in Order : r = Released(next)
    BY <1>2, ReservingIs
  <2>2. Filled(o, n) = [r EXCEPT !.status = "FILLED"]
    BY <1>3, <1>4, <2>1
  <2>3. /\ r.instrument = o.instrument /\ r.side = o.side
        /\ r.submitted = o.submitted /\ r.eligible = o.eligible
        /\ r.expires = o.expires /\ r.filled = done /\ r.remaining = left
    BY <1>2, <2>1, ReservingIs
  <2>4. QED
    BY <1>1, <1>4, <2>2, <2>3 DEF Order, IsOpen, OpenStatus
<1>5. CASE n # o.remaining
  <2>1. PICK r \in Order : r = Reserving(next)
    BY <1>2, ReservingIs
  <2>2. Filled(o, n) = [r EXCEPT !.status = "PARTIALLY_FILLED"]
    BY <1>3, <1>5, <2>1
  <2>3. /\ r.instrument = o.instrument /\ r.side = o.side
        /\ r.submitted = o.submitted /\ r.eligible = o.eligible
        /\ r.expires = o.expires /\ r.filled = done /\ r.remaining = left
        /\ o.side = "SELL" => r.reservedQuantity = left
    BY <1>2, <2>1, ReservingIs
  <2>4. n < o.remaining
    BY <1>5 DEF Order
  <2>5. QED
    BY <1>1, <2>2, <2>3, <2>4 DEF Order, IsOpen, OpenStatus
<1>6. QED
  BY <1>4, <1>5

\* Fewer open SELLs, each reserving what it did, reserve no more.
LEMMA SharesFall ==
    ASSUME orders \in Seq(Order), NEW i,
           ReservedIn(i, "SELL", 0)' \subseteq ReservedIn(i, "SELL", 0),
           \A j \in ReservedIn(i, "SELL", 0)' :
              /\ j \in DOMAIN orders'
              /\ orders'[j].reservedQuantity = orders[j].reservedQuantity
    PROVE  /\ SharesReserved(i, 0)' \in Nat /\ SharesReserved(i, 0) \in Nat
           /\ SharesReserved(i, 0)' <= SharesReserved(i, 0)
<1> DEFINE R == ReservedIn(i, "SELL", 0)  Q == ReservedIn(i, "SELL", 0)'
<1>1. R \subseteq DOMAIN orders /\ IsFiniteSet(R) /\ IsFiniteSet(Q)
  <2>1. R \subseteq DOMAIN orders
    BY DEF ReservedIn, OpenExcept
  <2>2. IsFiniteSet(DOMAIN orders)
    BY FS_Interval
  <2> HIDE DEF R, Q
  <2>3. IsFiniteSet(R)
    BY <2>1, <2>2, FS_Subset
  <2>4. Q \subseteq R
    BY DEF Q, R
  <2>5. QED
    BY <2>1, <2>3, <2>4, FS_Subset
<1>2. \A j \in R : Shares[j] \in Nat
  <2>1. \A j \in R : j \in DOMAIN orders /\ orders[j] \in Order
    BY <1>1
  <2>2. QED
    BY <2>1 DEF Shares, Order
<1>3. \A j \in Q : Shares'[j] = Shares[j]
  <2>1. \A j \in Q : j \in DOMAIN orders /\ j \in DOMAIN orders'
    BY <1>1
  <2>2. QED
    BY <2>1 DEF Shares
<1>4. Q \in SUBSET R
  OBVIOUS
<1>5. /\ SharesReserved(i, 0)' = SumFunctionOnSet(Shares', Q)
      /\ SharesReserved(i, 0) = SumFunctionOnSet(Shares, R)
  BY DEF SharesReserved
<1> HIDE DEF Q, R
<1>6. SumFunctionOnSet(Shares', Q) = SumFunctionOnSet(Shares, Q)
  BY <1>1, <1>3, SumEqual
<1>7. SumFunctionOnSet(Shares, Q) <= SumFunctionOnSet(Shares, R)
  BY <1>1, <1>2, <1>4, SumOfPart
<1>8. SumFunctionOnSet(Shares, Q) \in Nat /\ SumFunctionOnSet(Shares, R) \in Nat
  <2>1. /\ \A j \in Q : Shares[j] \in Int /\ Shares[j] >= 0
        /\ \A j \in R : Shares[j] \in Int /\ Shares[j] >= 0
    BY <1>2, <1>4
  <2>2. SumFunctionOnSet(Shares, Q) \in Int /\ SumFunctionOnSet(Shares, Q) >= 0
    BY <1>1, <2>1, SumType
  <2>3. SumFunctionOnSet(Shares, R) \in Int /\ SumFunctionOnSet(Shares, R) >= 0
    BY <1>1, <2>1, SumType
  <2>4. QED
    BY <2>2, <2>3
<1>9. QED
  BY <1>5, <1>6, <1>7, <1>8

-----------------------------------------------------------------------------
(* Steps that leave book and orders alone *)

LEMMA SumOfNone ==
    ASSUME NEW S, IsFiniteSet(S), NEW f, \A x \in S : f[x] = 0
    PROVE  SumFunctionOnSet(f, S) = 0
<1> DEFINE C == {T \in SUBSET S : SumFunctionOnSet(f, T) # 0}
<1>1. SUFFICES ASSUME C # {} PROVE FALSE
  OBVIOUS
<1>2. PICK T \in C : \A U \in C : U \subseteq T => U = T
  <2> HIDE DEF C
  <2>1. C \subseteq SUBSET S
    BY DEF C
  <2>2. QED
    BY <1>1, <2>1, Least
<1>3. IsFiniteSet(T) /\ T \subseteq S
  BY FS_Subset
<1>4. T # {}
  BY <1>2, SumEmpty
<1>5. First(T) \in T
  BY <1>4, FirstIn
<1>6. SumFunctionOnSet(f, T \ {First(T)}) = 0 /\ f[First(T)] = 0
  BY <1>2, <1>3, <1>5
<1>7. SumFunctionOnSet(f, T) = 0
  BY <1>3, <1>4, <1>6, SumFirst
<1>8. QED
  BY <1>2, <1>7

LEMMA InitKeeps == Init => BookInv
<1> SUFFICES ASSUME Init PROVE BookInv
  OBVIOUS
<1> USE DEF Init
<1>1. DOMAIN orders = {} /\ OpenExcept(0) = {} /\ ~Filling
  BY DEF OpenExcept, Filling
<1>2. Horizon \in Nat /\ 0 \in 0..Horizon
  <2>1. Sessions - 1 \in Nat
    BY Rates
  <2>2. QED
    BY <2>1, SessionIs DEF Horizon
<1>3. TypeOK
  <2>1. <<>> \in Seq([quantity : Nat \ {0}, cost : Nat]) /\ <<>> \in Seq(Order)
    OBVIOUS
  <2>2. /\ lots \in [Instruments -> Seq([quantity : Nat \ {0}, cost : Nat])]
        /\ orders \in Seq(Order)
    BY <2>1
  <2>3. quantity \in [Instruments -> Nat] /\ cost \in [Instruments -> Nat]
    OBVIOUS
  <2>4. opened \in [Instruments -> {Never} \cup 0..Horizon]
    OBVIOUS
  <2>5. ledger \in [{"CASH", "SECURITY", "FEE_EXPENSE", "REALIZED_PNL"} -> Int]
    OBVIOUS
  <2>6. cash \in Int
    BY Rates
  <2>7. now \in 0..Horizon /\ admits \in BOOLEAN
    BY <1>2, Zenon
  <2>8. due \subseteq [instrument : Instruments, span : Spans] /\ bar = NoBar
    OBVIOUS
  <2>9. QED
    BY <2>2, <2>3, <2>4, <2>5, <2>6, <2>7, <2>8, Zenon DEF TypeOK
<1>4. SellsAreCovered
  <2>1. \A i \in Instruments : ReservedIn(i, "SELL", 0) = {}
    BY <1>1 DEF ReservedIn
  <2>2. \A i \in Instruments : SharesReserved(i, 0) = 0
    BY <2>1, SumEmpty DEF SharesReserved
  <2>3. QED
    BY <2>2 DEF SellsAreCovered
<1>5. Exposure = 0
  BY Rates, SumOfNone DEF Exposure
<1>6. \A i \in Instruments :
        /\ SumFunction(Quantities(lots[i])) = 0
        /\ SumFunction(Costs(lots[i])) = 0
  BY SumEmpty DEF SumFunction, Quantities, Costs
<1>7. BookAgrees
  BY <1>5, <1>6, Rates DEF BookAgrees, Quantities, Costs
<1>8. WithinExposure
  BY <1>5, Rates DEF WithinExposure
<1>9. QED
  BY <1>1, <1>3, <1>4, <1>7, <1>8 DEF BookInv, InSession, BarIsOpen, SellsReserve

LEMMA OrdersKept ==
    ASSUME InSession, SellsReserve, UNCHANGED orders
    PROVE  /\ InSession' /\ SellsReserve'
           /\ \A i : SharesReserved(i, 0)' = SharesReserved(i, 0)
<1>1. InSession' /\ SellsReserve'
  BY DEF InSession, SellsReserve, IsOpen
<1>2. \A i : SharesReserved(i, 0)' = SharesReserved(i, 0)
  BY DEF SharesReserved, Shares, ReservedIn, OpenExcept, IsOpen
<1>3. QED
  BY <1>1, <1>2

LEMMA BookKept ==
    ASSUME BookAgrees, WithinExposure, UNCHANGED book
    PROVE  BookAgrees' /\ WithinExposure' /\ UNCHANGED quantity
BY DEF BookAgrees, WithinExposure, Exposure, book

LEMMA NextInstantKeeps == BookInv /\ NextInstant => BookInv'
<1> SUFFICES ASSUME BookInv, NextInstant PROVE BookInv'
  OBVIOUS
<1> DEFINE t == IF AtClose(now) THEN now + 2 ELSE now + 1
<1>1. now' = t /\ due' \in SUBSET Ending(t) /\ now < Horizon /\ ~Filling
  BY DEF NextInstant
<1>2. now \in Nat
  BY DEF BookInv, TypeOK
<1>3. now' \in 0..Horizon
  <2>1. Sessions - 1 \in Nat
    BY Rates
  <2>2. Horizon \in Nat
    BY <2>1, SessionIs DEF Horizon
  <2>3. CASE ~AtClose(now)
    BY <1>1, <1>2, <2>2, <2>3
  <2>4. CASE AtClose(now)
    <3>1. PICK d \in Nat : d = Day(now) /\ now = Closes(d)
      BY <1>2, <2>4, DayIs DEF AtClose
    <3>2. Closes(d) < Closes(Sessions - 1)
      BY <1>1, <3>1 DEF Horizon
    <3>3. PICK p \in Nat \ {0} : p = SlotsPerSession + 1 /\ p >= 2
      BY Rates
    <3>4. d * p < (Sessions - 1) * p
      BY <3>2, <3>3, <2>1, Rates DEF Closes, Opens
    <3>5. d + 1 <= Sessions - 1
      BY <2>1, <3>4
    <3>6. (d + 1) * p <= (Sessions - 1) * p
      BY <2>1, <3>5
    <3>7. Closes(d) + p <= Closes(Sessions - 1)
      BY <3>3, <3>6, <2>1, Rates DEF Closes, Opens
    <3>8. Closes(d) \in Nat
      BY SessionIs
    <3>9. now + 2 <= Horizon
      BY <3>1, <3>3, <3>7, <3>8, <2>2 DEF Horizon
    <3>10. QED
      BY <1>1, <1>2, <2>2, <2>4, <3>9
  <2>5. QED
    BY <2>3, <2>4
<1>4. due' \subseteq Ending(now)' /\ due' \subseteq [instrument : Instruments, span : Spans]
  <2>1. Ending(now)' = Ending(now')
    BY DEF Ending, Opens, Day
  <2>2. now' \in Nat
    BY <1>1, <1>2
  <2>3. \A b \in Ending(now') : b \in [instrument : Instruments, span : Spans]
    BY DEF Ending
  <2>4. QED
    BY <1>1, <2>1, <2>3
<1>5. UNCHANGED <<bar, orders, book>>
  BY DEF NextInstant
<1>6. TypeOK'
  <2>1. admits' \in BOOLEAN
    BY DEF NextInstant
  <2>2. QED
    BY <1>3, <1>4, <1>5, <2>1, Horizon' = Horizon DEF BookInv, TypeOK, book, Horizon, Closes, Opens
<1>7. InSession' /\ SellsReserve' /\ \A i : SharesReserved(i, 0)' = SharesReserved(i, 0)
  BY <1>5, OrdersKept DEF BookInv
<1>8. BookAgrees' /\ WithinExposure' /\ UNCHANGED quantity
  BY <1>5, BookKept DEF BookInv
<1>9. SellsAreCovered'
  BY <1>7, <1>8 DEF BookInv, SellsAreCovered
<1>10. BarIsOpen'
  BY <1>1, <1>5 DEF BarIsOpen, Filling
<1>11. QED
  BY <1>4, <1>6, <1>7, <1>8, <1>9, <1>10 DEF BookInv

\* The bar is left, or its cursor moves.
LEMMA BarMovesKeeps ==
    ASSUME BookInv,
           bar' = NoBar \/ \E k \in Nat : Filling /\ bar' = [bar EXCEPT !.cursor = k],
           UNCHANGED <<now, due, admits, orders, book>>
    PROVE  BookInv'
<1>1. UNCHANGED orders /\ UNCHANGED book
  OBVIOUS
<1>2. InSession' /\ SellsReserve' /\ \A i : SharesReserved(i, 0)' = SharesReserved(i, 0)
  BY <1>1, OrdersKept DEF BookInv
<1>3. BookAgrees' /\ WithinExposure' /\ UNCHANGED quantity
  BY <1>1, BookKept DEF BookInv
<1>4. SellsAreCovered'
  BY <1>2, <1>3 DEF BookInv, SellsAreCovered
<1>5. TypeOK'
  BY DEF BookInv, TypeOK, book, Horizon, Closes, Opens, Filling
<1>6. BarIsOpen'
  <2>1. CASE bar' = NoBar
    BY <2>1 DEF BarIsOpen, Filling
  <2>2. CASE \E k \in Nat : Filling /\ bar' = [bar EXCEPT !.cursor = k]
    BY <2>2 DEF BookInv, TypeOK, BarIsOpen, Filling, IsOpen
  <2>3. QED
    BY <2>1, <2>2
<1>7. (due \subseteq Ending(now))'
  BY DEF BookInv, Ending, Opens, Day
<1>8. QED
  BY <1>2, <1>3, <1>4, <1>5, <1>6, <1>7 DEF BookInv

LEMMA PassOverKeeps ==
    ASSUME BookInv, NEW k, PassOver(k)
    PROVE  BookInv'
<1>1. k \in Nat /\ Filling
  BY CurrentIs DEF BookInv, PassOver
<1>2. QED
  BY <1>1, BarMovesKeeps DEF PassOver

LEMMA FinishBarKeeps == BookInv /\ FinishBar => BookInv'
BY BarMovesKeeps DEF FinishBar

LEMMA StutterKeeps == BookInv /\ UNCHANGED vars => BookInv'
<1> SUFFICES ASSUME BookInv, UNCHANGED vars PROVE BookInv'
  OBVIOUS
<1>1. UNCHANGED orders /\ UNCHANGED book /\ UNCHANGED <<now, due, admits, bar>>
  BY DEF vars, book
<1>2. InSession' /\ SellsReserve' /\ \A i : SharesReserved(i, 0)' = SharesReserved(i, 0)
  BY <1>1, OrdersKept DEF BookInv
<1>3. BookAgrees' /\ WithinExposure' /\ UNCHANGED quantity
  BY <1>1, BookKept DEF BookInv
<1>4. SellsAreCovered'
  BY <1>2, <1>3 DEF BookInv, SellsAreCovered
<1>5. TypeOK' /\ BarIsOpen' /\ (due \subseteq Ending(now))'
  BY <1>1 DEF BookInv, TypeOK, BarIsOpen, Ending, book, Filling, IsOpen, Horizon,
              Closes, Opens, Day
<1>6. QED
  BY <1>2, <1>3, <1>4, <1>5 DEF BookInv

-----------------------------------------------------------------------------
(* A bar is begun *)

LEMMA ExpiredIs ==
    ASSUME NEW o \in Order, NEW t
    PROVE  LET e == Expired(o, t) IN
           /\ e \in Order /\ e.instrument = o.instrument /\ e.side = o.side
           /\ e.submitted = o.submitted /\ e.eligible = o.eligible
           /\ e.expires = o.expires /\ e.filled = o.filled
           /\ IsOpen(e) => e = o /\ ~(t >= o.expires)
<1>1. CASE IsOpen(o) /\ t >= o.expires
  <2>1. PICK r \in Order : r = Released(o)
    BY ReservingIs
  <2>2. Expired(o, t) = [r EXCEPT !.status = "EXPIRED"]
    BY <1>1, <2>1 DEF Expired
  <2>3. /\ r.instrument = o.instrument /\ r.side = o.side
        /\ r.submitted = o.submitted /\ r.eligible = o.eligible
        /\ r.expires = o.expires /\ r.filled = o.filled
    BY <2>1, ReservingIs
  <2>4. QED
    BY <2>2, <2>3 DEF Order, IsOpen, OpenStatus
<1>2. CASE ~(IsOpen(o) /\ t >= o.expires)
  BY <1>2 DEF Expired
<1>3. QED
  BY <1>1, <1>2

LEMMA StartBarKeeps ==
    ASSUME BookInv, NEW b \in due, NEW price \in Prices, NEW capacity \in Capacities,
           StartBar(b, price, capacity)
    PROVE  BookInv'
<1>1. /\ due' = due \ {b} /\ ~Filling
      /\ orders' = [k \in DOMAIN orders |-> Expired(orders[k], Starts(b))]
      /\ UNCHANGED <<now, admits>> /\ UNCHANGED book
  BY DEF StartBar
<1>2. /\ now \in Nat /\ orders \in Seq(Order) /\ quantity \in [Instruments -> Nat]
      /\ DOMAIN orders = 1..Len(orders)
      /\ \A k \in DOMAIN orders : orders[k] \in Order
  BY DEF BookInv, TypeOK
<1>3. /\ b \in [instrument : Instruments, span : Spans]
      /\ Starts(b) \in Nat /\ Starts(b) <= now
  BY <1>2, EndingIs DEF BookInv
<1>4. ASSUME NEW k \in DOMAIN orders
      PROVE  /\ orders'[k] \in Order
             /\ orders'[k].instrument = orders[k].instrument
             /\ orders'[k].side = orders[k].side
             /\ orders'[k].submitted = orders[k].submitted
             /\ orders'[k].eligible = orders[k].eligible
             /\ orders'[k].expires = orders[k].expires
             /\ orders'[k].filled = orders[k].filled
             /\ IsOpen(orders'[k]) => /\ orders'[k] = orders[k]
                                      /\ Starts(b) < orders[k].expires
  <2>1. orders'[k] = Expired(orders[k], Starts(b)) /\ orders[k] \in Order
    BY <1>1, <1>2
  <2>2. orders[k].expires \in Nat
    BY <2>1 DEF Order
  <2>3. QED
    BY <1>3, <2>1, <2>2, ExpiredIs
<1>5. DOMAIN orders' = DOMAIN orders /\ orders' \in Seq(Order)
  <2>1. DOMAIN orders' = 1..Len(orders)
    BY <1>1, <1>2
  <2>2. \A k \in 1..Len(orders) : orders'[k] \in Order
    BY <1>2, <1>4
  <2>3. orders' = [k \in 1..Len(orders) |-> orders'[k]] /\ Len(orders) \in Nat
    BY <1>1, <1>2
  <2>4. orders' \in [1..Len(orders) -> Order]
    BY <2>2, <2>3
  <2>5. QED
    BY <1>2, <2>1, <2>3, <2>4, SeqDef
<1>6. TypeOK'
  <2>1. \/ bar' = NoBar
        \/ bar' \in [instrument : Instruments, starts : Nat, price : Prices,
                     capacity : Nat \ {0}, before : Nat, cursor : Nat]
    <3>1. capacity \in Nat /\ quantity[b.instrument] \in Nat
      BY <1>2, <1>3, Rates
    <3>2. QED
      BY <1>3, <3>1 DEF StartBar
  <2>2. QED
    BY <1>1, <1>5, <2>1 DEF BookInv, TypeOK, book, Horizon, Closes, Opens
<1>7. InSession'
  BY <1>4, <1>5 DEF BookInv, InSession, Closes, Opens, Day
<1>8. SellsReserve'
  BY <1>4, <1>5 DEF BookInv, SellsReserve, IsOpen
<1>9. BarIsOpen'
  <2>1. Filling' => bar'.starts = Starts(b)
    BY DEF StartBar, Filling
  <2>2. QED
    BY <1>1, <1>3, <1>4, <1>5, <2>1 DEF BarIsOpen, IsOpen
<1>10. BookAgrees' /\ WithinExposure' /\ UNCHANGED quantity
  BY <1>1, BookKept DEF BookInv
<1>11. SellsAreCovered'
  <2>1. ASSUME NEW i \in Instruments
        PROVE  SharesReserved(i, 0)' <= quantity[i]
    <3>1. \A j \in ReservedIn(i, "SELL", 0)' :
             j \in DOMAIN orders' /\ IsOpen(orders'[j])
             /\ orders'[j].instrument = i /\ orders'[j].side = "SELL" /\ j # 0
      BY DEF ReservedIn, OpenExcept, IsOpen
    <3>2. \A j \in ReservedIn(i, "SELL", 0)' : orders'[j] = orders[j]
      BY <1>4, <1>5, <3>1
    <3>3. ReservedIn(i, "SELL", 0)' \subseteq ReservedIn(i, "SELL", 0)
      BY <1>5, <3>1, <3>2 DEF ReservedIn, OpenExcept
    <3>4. /\ SharesReserved(i, 0)' \in Nat /\ SharesReserved(i, 0) \in Nat
          /\ SharesReserved(i, 0)' <= SharesReserved(i, 0)
      BY <1>2, <3>1, <3>2, <3>3, SharesFall
    <3>5. SharesReserved(i, 0) <= quantity[i]
      BY DEF BookInv, SellsAreCovered
    <3>6. quantity[i] \in Nat
      BY <1>2
    <3>7. QED
      BY <3>4, <3>5, <3>6
  <2>2. QED
    BY <1>10, <2>1 DEF SellsAreCovered
<1>12. (due \subseteq Ending(now))'
  BY <1>1 DEF BookInv, Ending, Opens, Day
<1>13. QED
  BY <1>6, <1>7, <1>8, <1>9, <1>10, <1>11, <1>12 DEF BookInv

-----------------------------------------------------------------------------
(* An order is filled *)

LEMMA OrderFilled ==
    ASSUME BookInv, NEW k, Current(k), NEW n \in Nat \ {0},
           n <= orders[k].remaining, n <= bar.capacity,
           orders' = [orders EXCEPT ![k] = Filled(orders[k], n)],
           bar' = BarAfter(k, n), UNCHANGED <<now, due>>
    PROVE  /\ orders' \in Seq(Order) /\ DOMAIN orders' = DOMAIN orders
           /\ \A j \in DOMAIN orders :
                /\ j # k => orders'[j] = orders[j]
                /\ IsOpen(orders'[j]) => IsOpen(orders[j])
                /\ orders'[j].instrument = orders[j].instrument
                /\ orders'[j].side = orders[j].side
           /\ \/ bar' = NoBar
              \/ bar' \in [instrument : Instruments, starts : Nat, price : Prices,
                           capacity : Nat \ {0}, before : Nat, cursor : Nat]
           /\ InSession' /\ BarIsOpen' /\ SellsReserve'
           /\ (due \subseteq Ending(now))'
<1>1. /\ Filling /\ k \in DOMAIN orders /\ orders[k] \in Order /\ k \in Nat
      /\ IsOpen(orders[k])
      /\ bar \in [instrument : Instruments, starts : Nat, price : Prices,
                  capacity : Nat \ {0}, before : Nat, cursor : Nat]
  BY CurrentIs DEF BookInv
<1>2. /\ orders \in Seq(Order) /\ DOMAIN orders = 1..Len(orders)
      /\ \A j \in DOMAIN orders : orders[j] \in Order
  BY DEF BookInv, TypeOK
<1>3. PICK f : f = Filled(orders[k], n)
  OBVIOUS
<1>4. /\ f \in Order
      /\ f.instrument = orders[k].instrument /\ f.side = orders[k].side
      /\ f.submitted = orders[k].submitted /\ f.eligible = orders[k].eligible
      /\ f.expires = orders[k].expires
      /\ f.remaining = orders[k].remaining - n
      /\ IsOpen(f) <=> n < orders[k].remaining
      /\ orders[k].side = "SELL" /\ n < orders[k].remaining =>
            f.reservedQuantity = orders[k].remaining - n
  BY <1>1, <1>3, FilledIs
<1>5. /\ orders' \in Seq(Order) /\ DOMAIN orders' = DOMAIN orders
      /\ orders'[k] = f
      /\ \A j \in DOMAIN orders : j # k => orders'[j] = orders[j]
  BY <1>1, <1>2, <1>3, <1>4
<1>6. ASSUME NEW j \in DOMAIN orders
      PROVE  /\ IsOpen(orders'[j]) => IsOpen(orders[j])
             /\ orders'[j].instrument = orders[j].instrument
             /\ orders'[j].side = orders[j].side
             /\ orders'[j].submitted = orders[j].submitted
             /\ orders'[j].eligible = orders[j].eligible
             /\ orders'[j].expires = orders[j].expires
  BY <1>1, <1>4, <1>5
<1>7. \/ bar' = NoBar
      \/ /\ bar' \in [instrument : Instruments, starts : Nat, price : Prices,
                      capacity : Nat \ {0}, before : Nat, cursor : Nat]
         /\ bar'.starts = bar.starts
  <2>1. CASE n = bar.capacity
    BY <2>1 DEF BarAfter
  <2>2. CASE n # bar.capacity
    <3>1. PICK c \in Nat \ {0} : c = bar.capacity - n
      BY <1>1, <2>2
    <3>2. bar' = [bar EXCEPT !.capacity = c, !.cursor = k]
      BY <2>2, <3>1 DEF BarAfter
    <3>3. QED
      BY <1>1, <3>2
  <2>3. QED
    BY <2>1, <2>2
<1>8. InSession'
  BY <1>5, <1>6 DEF BookInv, InSession, Closes, Opens, Day
<1>9. BarIsOpen'
  <2>1. Filling' => bar'.starts = bar.starts
    BY <1>7 DEF Filling
  <2>2. QED
    BY <1>1, <1>5, <1>6, <2>1 DEF BookInv, BarIsOpen, IsOpen
<1>10. SellsReserve'
  <2>1. ASSUME NEW j \in DOMAIN orders, IsOpen(orders'[j]), orders'[j].side = "SELL"
        PROVE  orders'[j].reservedQuantity = orders'[j].remaining
    <3>1. CASE j = k
      BY <1>4, <1>5, <2>1, <3>1
    <3>2. CASE j # k
      BY <1>5, <2>1, <3>2 DEF BookInv, SellsReserve
    <3>3. QED
      BY <3>1, <3>2
  <2>2. QED
    BY <1>5, <2>1 DEF SellsReserve, IsOpen
<1>11. (due \subseteq Ending(now))'
  BY DEF BookInv, Ending, Opens, Day
<1>12. QED
  BY <1>5, <1>6, <1>7, <1>8, <1>9, <1>10, <1>11

\* Lots, quantity and cost after a fill, where the others' are left alone
LEMMA PositionKept ==
    ASSUME BookInv, NEW i \in Instruments,
           lots' = [lots EXCEPT ![i] = lots'[i]], lots'[i] \in Seq(Lot),
           quantity' = [quantity EXCEPT ![i] = quantity'[i]], quantity'[i] \in Nat,
           cost' = [cost EXCEPT ![i] = cost'[i]], cost'[i] \in Nat,
           quantity'[i] = SumFunction(Quantities(lots'[i])),
           cost'[i] = SumFunction(Costs(lots'[i]))
    PROVE  /\ lots' \in [Instruments -> Seq(Lot)]
           /\ quantity' \in [Instruments -> Nat] /\ cost' \in [Instruments -> Nat]
           /\ \A j \in Instruments :
                /\ quantity'[j] = SumFunction(Quantities(lots'[j]))
                /\ cost'[j] = SumFunction(Costs(lots'[j]))
           /\ Exposure' = Exposure - cost[i] + cost'[i]
<1>1. /\ lots \in [Instruments -> Seq(Lot)]
      /\ quantity \in [Instruments -> Nat] /\ cost \in [Instruments -> Nat]
  BY DEF BookInv, TypeOK, Lot
<1>2. \A j \in Instruments :
        /\ quantity[j] = SumFunction(Quantities(lots[j]))
        /\ cost[j] = SumFunction(Costs(lots[j]))
  BY DEF BookInv, BookAgrees, Quantities, Costs
<1>3. ASSUME NEW j \in Instruments
      PROVE  /\ quantity'[j] = SumFunction(Quantities(lots'[j]))
             /\ cost'[j] = SumFunction(Costs(lots'[j]))
  <2>1. CASE j = i
    BY <1>1, <2>1
  <2>2. CASE j # i
    BY <1>1, <1>2, <2>2
  <2>3. QED
    BY <2>1, <2>2
<1>4. Exposure' = Exposure - cost[i] + cost'[i]
  <2>1. /\ \A j \in Instruments : cost[j] \in Int
        /\ cost'[i] \in Int /\ IsFiniteSet(Instruments)
        /\ \A j \in Instruments \ {i} : cost'[j] = cost[j]
    BY <1>1, Rates
  <2>2. SumFunctionOnSet(cost', Instruments)
           = SumFunctionOnSet(cost, Instruments) - cost[i] + cost'[i]
    BY <2>1, SumChanged
  <2>3. QED
    BY <2>2 DEF Exposure
<1>5. QED
  BY <1>1, <1>3, <1>4

LEMMA FillBuyKeeps ==
    ASSUME BookInv, NEW k, FillBuy(k)
    PROVE  BookInv'
<1> DEFINE o == orders[k]
<1>1. PICK n : n = FillQuantity(k)
  OBVIOUS
<1>2. PICK p : p = FillPrice("BUY", bar.price)
  OBVIOUS
<1>3. Current(k) /\ o.side = "BUY" /\ n > 0 /\ UNCHANGED <<now, due, admits>>
  BY <1>1 DEF FillBuy
<1>4. /\ n \in Nat \ {0} /\ n <= bar.capacity /\ n <= o.remaining
      /\ p \in Nat \ {0}
      /\ n * p <= MaxGrossExposure - Exposure - ReservedNotional(k)
      /\ n * p <= MaxInstrumentExposure - cost[o.instrument]
                    - InstrumentReserved(o.instrument, k)
  BY <1>1, <1>2, <1>3, FillIs DEF BookInv
<1> n \in Nat \ {0}
  BY <1>4
<1>5. PICK gross \in Nat : gross = p * n /\ gross = n * p
  BY <1>4
<1>6. PICK fee \in Nat : fee = Fee(gross)
  BY FeeIs
<1>7. PICK i \in Instruments : i = o.instrument /\ i = bar.instrument
  BY <1>3, CurrentIs DEF BookInv
<1>8. PICK l \in Lot : l = [quantity |-> n, cost |-> gross] /\ l.quantity = n /\ l.cost = gross
  <2>1. [quantity |-> n, cost |-> gross] \in Lot
    BY DEF Lot
  <2>2. QED
    BY <2>1
<1>9. /\ lots \in [Instruments -> Seq(Lot)] /\ quantity \in [Instruments -> Nat]
      /\ cost \in [Instruments -> Nat] /\ cash \in Int
      /\ ledger \in [{"CASH", "SECURITY", "FEE_EXPENSE", "REALIZED_PNL"} -> Int]
      /\ orders \in Seq(Order)
  BY DEF BookInv, TypeOK, Lot
<1>10. /\ lots' = [lots EXCEPT ![i] = Append(lots[i], l)]
       /\ quantity' = [quantity EXCEPT ![i] = quantity[i] + n]
       /\ cost' = [cost EXCEPT ![i] = cost[i] + gross]
       /\ cash' = cash - gross - fee
       /\ opened' = IF bar.before = 0 THEN [opened EXCEPT ![i] = bar.starts] ELSE opened
       /\ ledger' = [ledger EXCEPT !["SECURITY"] = ledger["SECURITY"] + gross,
                                   !["FEE_EXPENSE"] = ledger["FEE_EXPENSE"] + fee,
                                   !["CASH"] = ledger["CASH"] - gross - fee]
       /\ orders' = [orders EXCEPT ![k] = Filled(orders[k], n)]
       /\ bar' = BarAfter(k, n)
  BY <1>1, <1>2, <1>5, <1>6, <1>7, <1>8 DEF FillBuy
<1>11. /\ lots' = [lots EXCEPT ![i] = Append(lots[i], l)]
        /\ quantity' = [quantity EXCEPT ![i] = quantity[i] + n]
        /\ cost' = [cost EXCEPT ![i] = cost[i] + gross]
  BY <1>10
<1>12. ledger' = [ledger EXCEPT !["SECURITY"] = ledger["SECURITY"] + gross,
                                 !["FEE_EXPENSE"] = ledger["FEE_EXPENSE"] + fee,
                                 !["CASH"] = ledger["CASH"] - gross - fee]
  BY <1>10
<1>13. /\ orders' \in Seq(Order) /\ DOMAIN orders' = DOMAIN orders
       /\ \A j \in DOMAIN orders :
            /\ j # k => orders'[j] = orders[j]
            /\ IsOpen(orders'[j]) => IsOpen(orders[j])
            /\ orders'[j].instrument = orders[j].instrument
            /\ orders'[j].side = orders[j].side
       /\ \/ bar' = NoBar
          \/ bar' \in [instrument : Instruments, starts : Nat, price : Prices,
                       capacity : Nat \ {0}, before : Nat, cursor : Nat]
       /\ InSession' /\ BarIsOpen' /\ SellsReserve'
       /\ (due \subseteq Ending(now))'
  BY <1>3, <1>4, <1>10, OrderFilled
<1>14. /\ lots[i] \in Seq(Lot)
       /\ quantity[i] = SumFunction(Quantities(lots[i]))
       /\ cost[i] = SumFunction(Costs(lots[i]))
  BY <1>9 DEF BookInv, BookAgrees, Quantities, Costs
<1>15. /\ lots'[i] = Append(lots[i], l)
        /\ quantity'[i] = quantity[i] + n /\ cost'[i] = cost[i] + gross
  BY <1>9, <1>11
<1>16. /\ lots' \in [Instruments -> Seq(Lot)]
       /\ quantity' \in [Instruments -> Nat] /\ cost' \in [Instruments -> Nat]
       /\ \A j \in Instruments :
            /\ quantity'[j] = SumFunction(Quantities(lots'[j]))
            /\ cost'[j] = SumFunction(Costs(lots'[j]))
       /\ Exposure' = Exposure - cost[i] + cost'[i]
  <2>1. /\ Append(lots[i], l) \in Seq(Lot)
        /\ quantity[i] + n \in Nat /\ cost[i] + gross \in Nat
    BY <1>9
  <2>2. /\ SumFunction(Quantities(Append(lots[i], l))) = quantity[i] + n
        /\ SumFunction(Costs(Append(lots[i], l))) = cost[i] + gross
    BY <1>8, <1>14, LotAppended
  <2>3. QED
    BY <1>11, <1>15, <2>1, <2>2, PositionKept
<1>17. Exposure \in Nat /\ Exposure' = Exposure + gross /\ cost[i] \in Nat
  <2>1. Exposure \in Nat /\ cost[i] \in Nat
    BY <1>9, ExposureIs
  <2>2. QED
    BY <1>16, <1>15, <2>1
<1>18. /\ ledger' \in [{"CASH", "SECURITY", "FEE_EXPENSE", "REALIZED_PNL"} -> Int]
       /\ ledger'["SECURITY"] = ledger["SECURITY"] + gross
       /\ ledger'["FEE_EXPENSE"] = ledger["FEE_EXPENSE"] + fee
       /\ ledger'["CASH"] = ledger["CASH"] - gross - fee
       /\ ledger'["REALIZED_PNL"] = ledger["REALIZED_PNL"]
       /\ \A a \in {"CASH", "SECURITY", "FEE_EXPENSE", "REALIZED_PNL"} : ledger[a] \in Int
  BY <1>9, <1>12
<1>19. TypeOK'
  <2>1. cash' \in Int
    BY <1>9, <1>10
  <2>2. opened' \in [Instruments -> {Never} \cup 0..Horizon]
    <3>1. bar.starts \in 0..Horizon
      <4>1. now \in 0..Horizon /\ bar.starts <= now /\ bar.starts \in Nat
        BY <1>3, CurrentIs DEF BookInv, BarIsOpen, TypeOK
      <4>2. Horizon \in Int
        <5>1. Sessions - 1 \in Nat
          BY Rates
        <5>2. QED
          BY <5>1, SessionIs DEF Horizon
      <4>3. QED
        BY <4>1, <4>2
    <3>2. opened \in [Instruments -> {Never} \cup 0..Horizon]
      BY DEF BookInv, TypeOK
    <3>3. QED
      BY <1>10, <3>1, <3>2
  <2>3. Horizon' = Horizon /\ now \in 0..Horizon
        /\ due \subseteq [instrument : Instruments, span : Spans] /\ admits \in BOOLEAN
    BY DEF Horizon, Closes, Opens, BookInv, TypeOK
  <2>4. QED
    BY <1>3, <1>13, <1>16, <1>18, <2>1, <2>2, <2>3 DEF TypeOK, Lot
<1>20. BookAgrees'
  <2>1. /\ ledger["SECURITY"] = Exposure
        /\ ledger["CASH"] = cash - InitialCash
        /\ ledger["CASH"] + ledger["SECURITY"] + ledger["FEE_EXPENSE"]
             + ledger["REALIZED_PNL"] = 0
    BY DEF BookInv, BookAgrees
  <2>2. /\ ledger'["SECURITY"] = Exposure'
        /\ ledger'["CASH"] = cash' - InitialCash
        /\ ledger'["CASH"] + ledger'["SECURITY"] + ledger'["FEE_EXPENSE"]
             + ledger'["REALIZED_PNL"] = 0
    BY <1>9, <1>10, <1>17, <1>18, <2>1, Rates
  <2>3. QED
    BY <1>16, <2>2 DEF BookAgrees, Quantities, Costs
<1>21. WithinExposure'
  <2>1. ReservedNotional(k) \in Nat /\ InstrumentReserved(i, k) \in Nat
    BY <1>9, ReservationsAre
  <2>2. Exposure' <= MaxGrossExposure
    BY <1>4, <1>5, <1>17, <2>1, Rates
  <2>3. cost[i] + gross <= MaxInstrumentExposure
    BY <1>4, <1>5, <1>7, <1>17, <2>1, Rates
  <2>4. \A j \in Instruments : cost'[j] <= MaxInstrumentExposure
    BY <1>9, <1>10, <2>3 DEF BookInv, WithinExposure
  <2>5. QED
    BY <2>2, <2>4 DEF WithinExposure
<1>22. SellsAreCovered'
  <2>1. ASSUME NEW j \in Instruments
        PROVE  SharesReserved(j, 0)' <= quantity'[j]
    <3>1. \A m \in ReservedIn(j, "SELL", 0)' :
             m \in DOMAIN orders' /\ IsOpen(orders'[m])
             /\ orders'[m].instrument = j /\ orders'[m].side = "SELL" /\ m # 0
      BY DEF ReservedIn, OpenExcept, IsOpen
    <3>2. \A m \in ReservedIn(j, "SELL", 0)' : orders'[m] = orders[m]
      BY <1>3, <1>13, <3>1
    <3>3. ReservedIn(j, "SELL", 0)' \subseteq ReservedIn(j, "SELL", 0)
      BY <1>13, <3>1, <3>2 DEF ReservedIn, OpenExcept
    <3>4. /\ SharesReserved(j, 0)' \in Nat /\ SharesReserved(j, 0) \in Nat
          /\ SharesReserved(j, 0)' <= SharesReserved(j, 0)
      BY <1>9, <3>1, <3>2, <3>3, SharesFall
    <3>5. SharesReserved(j, 0) <= quantity[j]
      BY DEF BookInv, SellsAreCovered
    <3>6. quantity[j] \in Nat /\ quantity'[j] \in Nat /\ quantity[j] <= quantity'[j]
      BY <1>9, <1>11
    <3>7. QED
      BY <3>4, <3>5, <3>6
  <2>2. QED
    BY <2>1 DEF SellsAreCovered
<1>23. QED
  BY <1>13, <1>19, <1>20, <1>21, <1>22 DEF BookInv

\* A SELL that is filled reserves as many shares less as it sells.
LEMMA SharesSold ==
    ASSUME orders \in Seq(Order), NEW k \in DOMAIN orders, k # 0,
           NEW f \in Order, orders' = [orders EXCEPT ![k] = f],
           IsOpen(orders[k]), orders[k].side = "SELL",
           f.instrument = orders[k].instrument, f.side = "SELL",
           NEW n \in Nat, n <= orders[k].remaining,
           orders[k].reservedQuantity = orders[k].remaining,
           IsOpen(f) <=> n < orders[k].remaining,
           IsOpen(f) => f.reservedQuantity = orders[k].remaining - n
    PROVE  /\ SharesReserved(f.instrument, 0) \in Int
           /\ SharesReserved(f.instrument, 0)' = SharesReserved(f.instrument, 0) - n
<1> DEFINE i == f.instrument
           R == ReservedIn(i, "SELL", 0)  Q == ReservedIn(i, "SELL", 0)'
<1>1. /\ IsFiniteSet(DOMAIN orders) /\ DOMAIN orders' = DOMAIN orders
      /\ orders'[k] = f /\ \A j \in DOMAIN orders : j # k => orders'[j] = orders[j]
      /\ \A j \in DOMAIN orders : orders[j] \in Order
      /\ \A j \in DOMAIN orders : orders'[j] \in Order
  <2>1. DOMAIN orders = 1..Len(orders) /\ Len(orders) \in Nat
    OBVIOUS
  <2>2. IsFiniteSet(DOMAIN orders)
    <3>1. PICK m \in Nat : m = Len(orders) /\ DOMAIN orders = 1..m
      BY <2>1
    <3>2. IsFiniteSet(1..m)
      BY UpToIsFinite
    <3>3. QED
      BY <3>1, <3>2
  <2>3. \A j \in DOMAIN orders : orders[j] \in Order
    OBVIOUS
  <2>4. /\ DOMAIN orders' = DOMAIN orders
        /\ orders'[k] = f /\ \A j \in DOMAIN orders : j # k => orders'[j] = orders[j]
    OBVIOUS
  <2>5. QED
    BY <2>2, <2>3, <2>4
<1>2. /\ R = {j \in DOMAIN orders \ {0} : /\ IsOpen(orders[j])
                                          /\ orders[j].instrument = i
                                          /\ orders[j].side = "SELL"}
      /\ Q = {j \in DOMAIN orders' \ {0} : /\ IsOpen(orders'[j])
                                           /\ orders'[j].instrument = i
                                           /\ orders'[j].side = "SELL"}
  BY DEF ReservedIn, OpenExcept, IsOpen
<1>3. k \in R /\ R \ {k} = Q \ {k} /\ (k \in Q <=> IsOpen(f))
  BY <1>1, <1>2
<1>4. R \subseteq DOMAIN orders /\ Q \subseteq DOMAIN orders
  BY <1>1, <1>2
<1>5. /\ SharesReserved(i, 0)' = SumFunctionOnSet(Shares', Q)
      /\ SharesReserved(i, 0) = SumFunctionOnSet(Shares, R)
  BY DEF SharesReserved
<1> HIDE DEF Q, R, i
<1>6. IsFiniteSet(R) /\ IsFiniteSet(Q) /\ IsFiniteSet(R \ {k})
  BY <1>1, <1>4, FS_Subset
<1>7. /\ \A j \in DOMAIN orders : Shares[j] = orders[j].reservedQuantity
                                  /\ Shares[j] \in Int
      /\ \A j \in DOMAIN orders : Shares'[j] = orders'[j].reservedQuantity
                                  /\ Shares'[j] \in Int
  <2>1. \A j \in DOMAIN orders :
           orders[j].reservedQuantity \in Int /\ orders'[j].reservedQuantity \in Int
    BY <1>1 DEF Order
  <2>2. QED
    BY <1>1, <2>1 DEF Shares
<1>8. \A j \in R \ {k} : Shares'[j] = Shares[j] /\ Shares[j] \in Int
  BY <1>1, <1>4, <1>7
<1>9. SumFunctionOnSet(Shares', R \ {k}) = SumFunctionOnSet(Shares, R \ {k})
  BY <1>6, <1>8, SumEqual
<1>10. SumFunctionOnSet(Shares, R \ {k}) \in Int
  BY <1>6, <1>8, SumType
<1>11. SumFunctionOnSet(Shares, R) = orders[k].remaining + SumFunctionOnSet(Shares, R \ {k})
  <2>1. \A j \in R : Shares[j] \in Int
    BY <1>4, <1>7
  <2>2. SumFunctionOnSet(Shares, R) = Shares[k] + SumFunctionOnSet(Shares, R \ {k})
    BY <1>3, <1>6, <2>1, SumStep
  <2>3. QED
    BY <1>7, <2>2
<1>12. SumFunctionOnSet(Shares', Q)
          = orders[k].remaining - n + SumFunctionOnSet(Shares, R \ {k})
  <2>1. CASE IsOpen(f)
    <3>1. \A j \in Q : Shares'[j] \in Int
      BY <1>4, <1>7
    <3>2. SumFunctionOnSet(Shares', Q) = Shares'[k] + SumFunctionOnSet(Shares', Q \ {k})
      BY <1>3, <1>6, <2>1, <3>1, SumStep
    <3>3. Shares'[k] = orders[k].remaining - n
      BY <1>1, <1>7, <2>1
    <3>4. QED
      BY <1>3, <1>9, <3>2, <3>3
  <2>2. CASE ~IsOpen(f)
    <3>1. Q = R \ {k}
      BY <1>3, <2>2
    <3>2. n = orders[k].remaining
      <4>1. orders[k].remaining \in Nat
        BY <1>1 DEF Order
      <4>2. QED
        BY <2>2, <4>1
    <3>3. QED
      BY <1>9, <1>10, <3>1, <3>2
  <2>3. QED
    BY <2>1, <2>2
<1>13. orders[k].remaining \in Nat
  BY <1>1 DEF Order
<1>14. /\ SharesReserved(i, 0) \in Int
       /\ SharesReserved(i, 0)' = SharesReserved(i, 0) - n
  BY <1>5, <1>10, <1>11, <1>12, <1>13
<1>15. QED
  BY <1>14 DEF i

LEMMA FillSellKeeps ==
    ASSUME BookInv, NEW k, FillSell(k)
    PROVE  BookInv'
<1> DEFINE o == orders[k]
<1>1. PICK n : n = FillQuantity(k)
  OBVIOUS
<1>2. PICK b : b = Consumed(o.instrument, n)
  OBVIOUS
<1>3. Current(k) /\ o.side = "SELL" /\ n > 0 /\ UNCHANGED <<now, due, admits>>
  BY <1>1 DEF FillSell
<1>4. /\ n \in Nat \ {0} /\ n <= bar.capacity /\ n <= o.remaining
      /\ n <= quantity[o.instrument]
  BY <1>1, <1>3, FillIs DEF BookInv
<1> n \in Nat \ {0}
  BY <1>4
<1>5. PICK gross \in Nat : gross = FillPrice("SELL", bar.price) * n
  <2>1. bar.price \in Nat
    BY <1>3, CurrentIs, Rates DEF BookInv
  <2>2. FillPrice("SELL", bar.price) \in Nat
    BY <2>1, FillPriceIs
  <2>3. QED
    BY <2>2
<1>6. PICK fee \in Nat : fee = Fee(gross)
  BY FeeIs
<1>7. PICK i \in Instruments : i = o.instrument /\ i = bar.instrument
  BY <1>3, CurrentIs DEF BookInv
<1>8. /\ lots \in [Instruments -> Seq(Lot)] /\ quantity \in [Instruments -> Nat]
      /\ cost \in [Instruments -> Nat] /\ cash \in Int
      /\ ledger \in [{"CASH", "SECURITY", "FEE_EXPENSE", "REALIZED_PNL"} -> Int]
      /\ orders \in Seq(Order)
  BY DEF BookInv, TypeOK, Lot
<1>9. /\ lots[i] \in Seq(Lot)
      /\ quantity[i] = SumFunction(Quantities(lots[i]))
      /\ cost[i] = SumFunction(Costs(lots[i]))
  BY <1>8 DEF BookInv, BookAgrees, Quantities, Costs
<1>10. /\ b.cost \in Nat /\ b.rest \in Seq(Lot)
       /\ SumFunction(Quantities(b.rest)) = quantity[i] - n
       /\ SumFunction(Costs(b.rest)) = cost[i] - b.cost
  BY <1>2, <1>4, <1>7, <1>9, ConsumedKeeps
<1>11. PICK basis \in Nat : basis = b.cost
  BY <1>10
<1>12. quantity[i] - n \in Nat /\ cost[i] - basis \in Nat
  BY <1>10, <1>11, LotSums
<1>13. /\ lots' = [lots EXCEPT ![i] = b.rest]
       /\ quantity' = [quantity EXCEPT ![i] = quantity[i] - n]
       /\ cost' = [cost EXCEPT ![i] = cost[i] - basis]
  BY <1>1, <1>2, <1>7, <1>11 DEF FillSell
<1>14. /\ cash' = cash + gross - fee
       /\ opened' = IF quantity[i] = n THEN [opened EXCEPT ![i] = Never] ELSE opened
       /\ orders' = [orders EXCEPT ![k] = Filled(orders[k], n)]
       /\ bar' = BarAfter(k, n)
  BY <1>1, <1>5, <1>6, <1>7 DEF FillSell
<1>15. ledger' = [ledger EXCEPT !["CASH"] = ledger["CASH"] + gross - fee,
                                !["FEE_EXPENSE"] = ledger["FEE_EXPENSE"] + fee,
                                !["SECURITY"] = ledger["SECURITY"] - basis,
                                !["REALIZED_PNL"] = ledger["REALIZED_PNL"] - (gross - basis)]
  BY <1>1, <1>2, <1>5, <1>6, <1>7, <1>11 DEF FillSell
<1>16. /\ orders' \in Seq(Order) /\ DOMAIN orders' = DOMAIN orders
       /\ \A j \in DOMAIN orders :
            /\ j # k => orders'[j] = orders[j]
            /\ IsOpen(orders'[j]) => IsOpen(orders[j])
            /\ orders'[j].instrument = orders[j].instrument
            /\ orders'[j].side = orders[j].side
       /\ \/ bar' = NoBar
          \/ bar' \in [instrument : Instruments, starts : Nat, price : Prices,
                       capacity : Nat \ {0}, before : Nat, cursor : Nat]
       /\ InSession' /\ BarIsOpen' /\ SellsReserve'
       /\ (due \subseteq Ending(now))'
  BY <1>3, <1>4, <1>14, OrderFilled
<1>17. /\ lots'[i] = b.rest
       /\ quantity'[i] = quantity[i] - n /\ cost'[i] = cost[i] - basis
  BY <1>8, <1>13
<1>18. /\ lots' \in [Instruments -> Seq(Lot)]
       /\ quantity' \in [Instruments -> Nat] /\ cost' \in [Instruments -> Nat]
       /\ \A j \in Instruments :
            /\ quantity'[j] = SumFunction(Quantities(lots'[j]))
            /\ cost'[j] = SumFunction(Costs(lots'[j]))
       /\ Exposure' = Exposure - cost[i] + cost'[i]
  BY <1>10, <1>11, <1>12, <1>13, <1>17, PositionKept
<1>19. Exposure \in Nat /\ Exposure' = Exposure - basis
  <2>1. Exposure \in Nat /\ cost[i] \in Nat
    BY <1>8, ExposureIs
  <2>2. QED
    BY <1>17, <1>18, <2>1
<1>20. /\ ledger' \in [{"CASH", "SECURITY", "FEE_EXPENSE", "REALIZED_PNL"} -> Int]
       /\ ledger'["SECURITY"] = ledger["SECURITY"] - basis
       /\ ledger'["FEE_EXPENSE"] = ledger["FEE_EXPENSE"] + fee
       /\ ledger'["CASH"] = ledger["CASH"] + gross - fee
       /\ ledger'["REALIZED_PNL"] = ledger["REALIZED_PNL"] - (gross - basis)
       /\ \A a \in {"CASH", "SECURITY", "FEE_EXPENSE", "REALIZED_PNL"} : ledger[a] \in Int
  BY <1>8, <1>15
<1>21. TypeOK'
  <2>1. cash' \in Int
    BY <1>8, <1>14
  <2>2. opened' \in [Instruments -> {Never} \cup 0..Horizon]
    <3>1. opened \in [Instruments -> {Never} \cup 0..Horizon]
      BY DEF BookInv, TypeOK
    <3>2. QED
      BY <1>14, <3>1
  <2>3. Horizon' = Horizon /\ now \in 0..Horizon
        /\ due \subseteq [instrument : Instruments, span : Spans] /\ admits \in BOOLEAN
    BY DEF Horizon, Closes, Opens, BookInv, TypeOK
  <2>4. QED
    BY <1>3, <1>16, <1>18, <1>20, <2>1, <2>2, <2>3 DEF TypeOK, Lot
<1>22. BookAgrees'
  <2>1. /\ ledger["SECURITY"] = Exposure
        /\ ledger["CASH"] = cash - InitialCash
        /\ ledger["CASH"] + ledger["SECURITY"] + ledger["FEE_EXPENSE"]
             + ledger["REALIZED_PNL"] = 0
    BY DEF BookInv, BookAgrees
  <2>2. /\ ledger'["SECURITY"] = Exposure'
        /\ ledger'["CASH"] = cash' - InitialCash
        /\ ledger'["CASH"] + ledger'["SECURITY"] + ledger'["FEE_EXPENSE"]
             + ledger'["REALIZED_PNL"] = 0
    <3>1. cash' = cash + gross - fee /\ cash \in Int /\ InitialCash \in Int
      BY <1>8, <1>14, Rates
    <3>2. PICK c \in Int, s \in Int, e \in Int, r \in Int :
             /\ c = ledger["CASH"] /\ s = ledger["SECURITY"]
             /\ e = ledger["FEE_EXPENSE"] /\ r = ledger["REALIZED_PNL"]
      BY <1>20
    <3>3. /\ ledger'["CASH"] = c + gross - fee /\ ledger'["SECURITY"] = s - basis
          /\ ledger'["FEE_EXPENSE"] = e + fee
          /\ ledger'["REALIZED_PNL"] = r - (gross - basis)
      BY <1>20, <3>2
    <3>4. c + s + e + r = 0 /\ s = Exposure /\ c = cash - InitialCash
      BY <2>1, <3>2
    <3>5. QED
      BY <1>19, <3>1, <3>3, <3>4
  <2>3. QED
    BY <1>18, <2>2 DEF BookAgrees, Quantities, Costs
<1>23. WithinExposure'
  <2>1. Exposure' <= MaxGrossExposure
    <3>1. Exposure <= MaxGrossExposure
      BY DEF BookInv, WithinExposure
    <3>2. QED
      BY <1>19, <3>1, Rates
  <2>2. \A j \in Instruments : cost'[j] <= MaxInstrumentExposure
    <3> TAKE j \in Instruments
    <3>1. cost[j] <= MaxInstrumentExposure /\ cost[j] \in Nat
      BY <1>8 DEF BookInv, WithinExposure
    <3>2. cost'[j] \in {cost[j], cost[j] - basis}
      BY <1>8, <1>13
    <3>3. QED
      BY <3>1, <3>2, Rates
  <2>3. QED
    BY <2>1, <2>2 DEF WithinExposure
<1>24. SellsAreCovered'
  <2>1. ASSUME NEW j \in Instruments, j # i
        PROVE  SharesReserved(j, 0)' <= quantity'[j]
    <3>1. \A m \in ReservedIn(j, "SELL", 0)' :
             m \in DOMAIN orders' /\ IsOpen(orders'[m])
             /\ orders'[m].instrument = j /\ orders'[m].side = "SELL" /\ m # 0
      BY DEF ReservedIn, OpenExcept, IsOpen
    <3>2. \A m \in ReservedIn(j, "SELL", 0)' : orders'[m] = orders[m]
      BY <1>7, <1>16, <2>1, <3>1
    <3>3. ReservedIn(j, "SELL", 0)' \subseteq ReservedIn(j, "SELL", 0)
      BY <1>16, <3>1, <3>2 DEF ReservedIn, OpenExcept
    <3>4. /\ SharesReserved(j, 0)' \in Nat /\ SharesReserved(j, 0) \in Nat
          /\ SharesReserved(j, 0)' <= SharesReserved(j, 0)
      BY <1>8, <3>1, <3>2, <3>3, SharesFall
    <3>5. SharesReserved(j, 0) <= quantity[j]
      BY DEF BookInv, SellsAreCovered
    <3>6. quantity[j] \in Nat /\ quantity'[j] = quantity[j]
      BY <1>8, <1>13, <2>1
    <3>7. QED
      BY <3>4, <3>5, <3>6
  <2>2. SharesReserved(i, 0)' <= quantity'[i]
    <3>1. /\ k \in DOMAIN orders /\ o \in Order /\ IsOpen(o) /\ k # 0
      <4>1. DOMAIN orders = 1..Len(orders)
        BY <1>8
      <4>2. QED
        BY <1>3, <4>1, CurrentIs DEF BookInv
    <3>2. PICK f : f = Filled(o, n)
      OBVIOUS
    <3>3. /\ f \in Order /\ f.instrument = i /\ f.side = "SELL"
          /\ IsOpen(f) <=> n < o.remaining
          /\ n < o.remaining => f.reservedQuantity = o.remaining - n
      BY <1>3, <1>4, <1>7, <3>1, <3>2, FilledIs
    <3>4. o.reservedQuantity = o.remaining
      BY <1>3, <3>1 DEF BookInv, SellsReserve
    <3>5. orders' = [orders EXCEPT ![k] = f]
      BY <1>14, <3>2
    <3>6. /\ SharesReserved(f.instrument, 0) \in Int
          /\ SharesReserved(f.instrument, 0)' = SharesReserved(f.instrument, 0) - n
      BY <1>3, <1>4, <1>7, <1>8, <3>1, <3>3, <3>4, <3>5, SharesSold
    <3>7. SharesReserved(i, 0) <= quantity[i] /\ quantity[i] \in Nat
      BY <1>8 DEF BookInv, SellsAreCovered
    <3>8. SharesReserved(i, 0)' = SharesReserved(i, 0) - n /\ SharesReserved(i, 0) \in Int
      BY <3>3, <3>6
    <3>9. QED
      BY <1>17, <3>7, <3>8
  <2>3. QED
    BY <2>1, <2>2 DEF SellsAreCovered
<1>25. QED
  BY <1>16, <1>21, <1>22, <1>23, <1>24 DEF BookInv

-----------------------------------------------------------------------------
(* An order is submitted *)

LEMMA SharesOffered ==
    ASSUME orders \in Seq(Order), NEW a \in Order, orders' = Append(orders, a),
           NEW i
    PROVE  /\ SharesReserved(i, Len(orders) + 1) = SharesReserved(i, 0)
           /\ SharesReserved(i, 0) \in Nat
           /\ SharesReserved(i, 0)' =
                IF IsOpen(a) /\ a.instrument = i /\ a.side = "SELL"
                THEN a.reservedQuantity + SharesReserved(i, 0) ELSE SharesReserved(i, 0)
<1> DEFINE k == Len(orders) + 1
           R == ReservedIn(i, "SELL", 0)  Q == ReservedIn(i, "SELL", 0)'
<1>1. /\ Len(orders) \in Nat /\ k \in Nat /\ k # 0
      /\ DOMAIN orders = 1..Len(orders) /\ DOMAIN orders' = 1..k
      /\ k \notin DOMAIN orders /\ 0 \notin DOMAIN orders'
      /\ DOMAIN orders' = DOMAIN orders \cup {k}
  OBVIOUS
<1>2. orders'[k] = a /\ \A j \in DOMAIN orders : orders'[j] = orders[j] /\ orders[j] \in Order
  OBVIOUS
<1> HIDE DEF k
<1>3. OpenExcept(k) = OpenExcept(0)
  BY <1>1 DEF OpenExcept
<1>4. SharesReserved(i, k) = SharesReserved(i, 0)
  BY <1>3 DEF SharesReserved, ReservedIn
<1>5. /\ R = {j \in DOMAIN orders : /\ IsOpen(orders[j])
                                    /\ orders[j].instrument = i
                                    /\ orders[j].side = "SELL"}
      /\ Q = {j \in DOMAIN orders' : /\ IsOpen(orders'[j])
                                     /\ orders'[j].instrument = i
                                     /\ orders'[j].side = "SELL"}
  BY <1>1 DEF ReservedIn, OpenExcept, IsOpen
<1> DEFINE offers == IsOpen(a) /\ a.instrument = i /\ a.side = "SELL"
<1>6. Q = IF offers THEN R \cup {k} ELSE R
  <2> HIDE DEF R, Q
  <2>1. \A j \in DOMAIN orders : j \in Q <=> j \in R
    BY <1>1, <1>2, <1>5
  <2>2. k \in Q <=> offers
    BY <1>1, <1>2, <1>5
  <2>3. Q \subseteq DOMAIN orders \cup {k} /\ R \subseteq DOMAIN orders
    BY <1>1, <1>5
  <2> HIDE DEF offers
  <2>4. k \notin DOMAIN orders
    BY <1>1
  <2>5. CASE offers
    <3>1. Q = R \cup {k}
      BY <2>1, <2>2, <2>3, <2>4, <2>5
    <3>2. QED
      BY <2>5, <3>1
  <2>6. CASE ~offers
    <3>1. Q = R
      BY <2>1, <2>2, <2>3, <2>4, <2>6
    <3>2. QED
      BY <2>6, <3>1
  <2>7. QED
    BY <2>5, <2>6
<1>7. R \subseteq DOMAIN orders /\ k \notin R /\ Q \subseteq DOMAIN orders'
  BY <1>1, <1>5
<1>8. /\ SharesReserved(i, 0)' = SumFunctionOnSet(Shares', Q)
      /\ SharesReserved(i, 0) = SumFunctionOnSet(Shares, R)
  BY DEF SharesReserved
<1> HIDE DEF Q, R, offers
<1>9. IsFiniteSet(R) /\ IsFiniteSet(R \cup {k})
  <2>1. PICK m \in Nat : m = Len(orders) /\ DOMAIN orders = 1..m
    BY <1>1
  <2>2. IsFiniteSet(1..m)
    BY UpToIsFinite
  <2>3. IsFiniteSet(R)
    BY <1>7, <2>1, <2>2, FS_Subset
  <2>4. QED
    BY <2>3, FS_AddElement
<1>10. /\ \A j \in R : Shares'[j] = Shares[j] /\ Shares[j] \in Int /\ Shares[j] >= 0
       /\ Shares'[k] = a.reservedQuantity /\ Shares'[k] \in Int
  <2>1. \A j \in R : orders[j] \in Order /\ j \in DOMAIN orders' /\ orders'[j] = orders[j]
    BY <1>1, <1>2, <1>7
  <2>2. \A j \in R : orders[j].reservedQuantity \in Nat
    BY <2>1 DEF Order
  <2>3. a.reservedQuantity \in Nat /\ k \in DOMAIN orders'
    BY <1>1 DEF Order
  <2>4. /\ \A j \in R : Shares'[j] = orders'[j].reservedQuantity
        /\ \A j \in R : Shares[j] = orders[j].reservedQuantity
        /\ Shares'[k] = orders'[k].reservedQuantity
    BY <1>7, <2>1, <2>3 DEF Shares
  <2>5. QED
    BY <1>2, <2>1, <2>2, <2>3, <2>4
<1>11. SumFunctionOnSet(Shares', R) = SumFunctionOnSet(Shares, R)
  BY <1>9, <1>10, SumEqual
<1>12. SumFunctionOnSet(Shares, R) \in Int /\ SumFunctionOnSet(Shares, R) >= 0
  BY <1>9, <1>10, SumType
<1>13. SumFunctionOnSet(Shares', Q) = IF offers THEN a.reservedQuantity + SumFunctionOnSet(Shares, R)
                                      ELSE SumFunctionOnSet(Shares, R)
  <2>1. CASE offers
    <3>1. Q = R \cup {k} /\ (R \cup {k}) \ {k} = R /\ k \in R \cup {k}
      BY <1>6, <1>7, <2>1
    <3>2. \A j \in R \cup {k} : Shares'[j] \in Int
      BY <1>10
    <3>3. SumFunctionOnSet(Shares', R \cup {k}) = Shares'[k] + SumFunctionOnSet(Shares', R)
      BY <1>9, <3>1, <3>2, SumStep
    <3>4. QED
      BY <1>10, <1>11, <2>1, <3>1, <3>3
  <2>2. CASE ~offers
    BY <1>6, <1>11, <2>2
  <2>3. QED
    BY <2>1, <2>2
<1>14. QED
  BY <1>4, <1>8, <1>12, <1>13 DEF k, offers

LEMMA AdmittedIs ==
    ASSUME NEW o \in Order, o.status = "ACCEPTED", NEW k
    PROVE  LET a == Admitted(o, k) IN
           /\ a \in Order
           /\ a.instrument = o.instrument /\ a.side = o.side
           /\ a.submitted = o.submitted /\ a.eligible = o.eligible
           /\ a.expires = o.expires /\ a.remaining = o.remaining
           /\ IsOpen(a) /\ o.side = "SELL" =>
                 ~Short(o, k) /\ a.reservedQuantity = o.remaining
<1> DEFINE refused == IF o.side = "SELL" THEN Short(o, k) ELSE Overcommitted(o, k)
<1>1. Admitted(o, k) = IF refused THEN [o EXCEPT !.status = "REJECTED"] ELSE Reserving(o)
  BY Zenon DEF Admitted
<1>2. refused /\ o.side = "SELL" <=> Short(o, k) /\ o.side = "SELL"
  OBVIOUS
<1> HIDE DEF refused
<1>3. CASE refused
  <2>1. Admitted(o, k) = [o EXCEPT !.status = "REJECTED"]
    BY <1>1, <1>3
  <2>2. QED
    BY <2>1 DEF Order, IsOpen, OpenStatus
<1>4. CASE ~refused
  <2>1. PICK r \in Order : r = Reserving(o)
    BY ReservingIs
  <2>2. Admitted(o, k) = r
    BY <1>1, <1>4, <2>1
  <2>3. /\ r.instrument = o.instrument /\ r.side = o.side
        /\ r.submitted = o.submitted /\ r.eligible = o.eligible
        /\ r.expires = o.expires /\ r.remaining = o.remaining
        /\ o.side = "SELL" => r.reservedQuantity = o.remaining
    BY <2>1, ReservingIs
  <2>4. QED
    BY <1>2, <1>4, <2>2, <2>3
<1>5. QED
  BY <1>3, <1>4

LEMMA EligibleLater ==
    ASSUME now \in Nat
    PROVE  EligibleAt \in Nat /\ now <= EligibleAt /\ ExpiresAt \in Nat
<1>1. EligibleAt \in Nat /\ now <= EligibleAt
  <2>1. CASE AtClose(now)
    <3>1. Day(now) \in Nat /\ now = Closes(Day(now))
      BY <2>1, DayIs DEF AtClose
    <3>2. Opens(Day(now) + 1) = Closes(Day(now)) + 1
      BY <3>1, SessionIs
    <3>3. QED
      BY <2>1, <3>1, <3>2 DEF EligibleAt
  <2>2. CASE ~AtClose(now)
    BY <2>2 DEF EligibleAt
  <2>3. QED
    BY <2>1, <2>2
<1>2. ExpiresAt \in Nat
  <2>1. Day(EligibleAt) \in Nat
    BY <1>1, DayIs
  <2>2. QED
    BY <2>1, SessionIs DEF ExpiresAt
<1>3. QED
  BY <1>1, <1>2

LEMMA SubmitKeeps ==
    ASSUME BookInv, NEW i \in Instruments, NEW side \in {"BUY", "SELL"},
           NEW n \in 1..MaxQuantity, NEW reference \in Prices,
           NEW limit \in PositionLimits, Submit(i, side, n, reference, limit)
    PROVE  BookInv'
<1> DEFINE k == Len(orders) + 1
           o == [instrument |-> i, side |-> side, remaining |-> n, filled |-> 0,
                 submitted |-> now, eligible |-> EligibleAt, expires |-> ExpiresAt,
                 reference |-> reference, limit |-> limit, status |-> "ACCEPTED",
                 reservedCash |-> 0, reservedNotional |-> 0, reservedQuantity |-> 0]
<1>1. /\ orders \in Seq(Order) /\ now \in Nat /\ quantity \in [Instruments -> Nat]
  BY DEF BookInv, TypeOK
<1>2. EligibleAt \in Nat /\ now <= EligibleAt /\ ExpiresAt \in Nat
  BY <1>1, EligibleLater
<1>3. n \in Nat /\ reference \in Nat /\ limit \in Nat
  BY Rates, BookAssumption
<1>4. o \in Order /\ o.status = "ACCEPTED"
  BY <1>1, <1>2, <1>3 DEF Order, OpenStatus
<1>5. PICK a : a = Admitted(o, k)
  OBVIOUS
<1>6. /\ a \in Order /\ a.instrument = i /\ a.side = side
      /\ a.submitted = now /\ a.eligible = EligibleAt /\ a.expires = ExpiresAt
      /\ a.remaining = n
      /\ IsOpen(a) /\ side = "SELL" => ~Short(o, k) /\ a.reservedQuantity = n
  BY <1>4, <1>5, AdmittedIs
<1>7. orders' = Append(orders, a) /\ ~Filling /\ UNCHANGED <<now, due, admits, bar>>
      /\ UNCHANGED book
  BY <1>5 DEF Submit
<1>8. Short(o, k) <=> quantity[i] - SharesReserved(i, k) < n
  BY DEF Short
<1> HIDE DEF o
<1>9. /\ orders' \in Seq(Order) /\ DOMAIN orders' = DOMAIN orders \cup {k}
      /\ orders'[k] = a /\ \A j \in DOMAIN orders : orders'[j] = orders[j]
  BY <1>1, <1>6, <1>7
<1>10. BookAgrees' /\ WithinExposure' /\ UNCHANGED quantity
  BY <1>7, BookKept DEF BookInv
<1>11. TypeOK'
  BY <1>7, <1>9 DEF BookInv, TypeOK, book, Horizon, Closes, Opens
<1>12. InSession'
  <2>1. a.expires = Closes(Day(a.eligible)) /\ a.submitted <= a.eligible
    BY <1>2, <1>6 DEF ExpiresAt
  <2>2. QED
    BY <1>9, <2>1 DEF BookInv, InSession, Closes, Opens, Day
<1>13. SellsReserve'
  BY <1>6, <1>9 DEF BookInv, SellsReserve, IsOpen
<1>14. BarIsOpen' /\ (due \subseteq Ending(now))'
  BY <1>7 DEF BookInv, BarIsOpen, Filling, Ending, Opens, Day
<1>15. SellsAreCovered'
  <2>1. ASSUME NEW j \in Instruments
        PROVE  SharesReserved(j, 0)' <= quantity[j]
    <3>1. /\ SharesReserved(j, k) = SharesReserved(j, 0)
          /\ SharesReserved(j, 0) \in Nat
          /\ SharesReserved(j, 0)' =
               IF IsOpen(a) /\ a.instrument = j /\ a.side = "SELL"
               THEN a.reservedQuantity + SharesReserved(j, 0) ELSE SharesReserved(j, 0)
      BY <1>1, <1>6, <1>7, SharesOffered
    <3>2. SharesReserved(j, 0) <= quantity[j] /\ quantity[j] \in Nat
      BY <1>1 DEF BookInv, SellsAreCovered
    <3>3. CASE IsOpen(a) /\ a.instrument = j /\ a.side = "SELL"
      <4>1. ~(quantity[j] - SharesReserved(j, k) < n) /\ a.reservedQuantity = n
        BY <1>6, <1>8, <3>3
      <4>2. QED
        BY <1>3, <3>1, <3>2, <3>3, <4>1
    <3>4. CASE ~(IsOpen(a) /\ a.instrument = j /\ a.side = "SELL")
      BY <3>1, <3>2, <3>4
    <3>5. QED
      BY <3>3, <3>4
  <2>2. QED
    BY <1>10, <2>1 DEF SellsAreCovered
<1>16. QED
  BY <1>10, <1>11, <1>12, <1>13, <1>14, <1>15 DEF BookInv

-----------------------------------------------------------------------------
(* What holds of every execution *)

LEMMA StepKeeps == BookInv /\ [Next]_vars => BookInv'
<1> SUFFICES ASSUME BookInv, [Next]_vars PROVE BookInv'
  OBVIOUS
<1>1. CASE NextInstant
  BY <1>1, NextInstantKeeps
<1>2. CASE \E b \in due, price \in Prices, capacity \in Capacities :
              StartBar(b, price, capacity)
  BY <1>2, StartBarKeeps
<1>3. CASE \E k \in DOMAIN orders : PassOver(k) \/ FillBuy(k) \/ FillSell(k)
  BY <1>3, PassOverKeeps, FillBuyKeeps, FillSellKeeps
<1>4. CASE FinishBar
  BY <1>4, FinishBarKeeps
<1>5. CASE \E i \in Instruments, side \in {"BUY", "SELL"}, n \in 1..MaxQuantity,
              reference \in Prices, limit \in PositionLimits :
              Submit(i, side, n, reference, limit)
  BY <1>5, SubmitKeeps
<1>6. CASE UNCHANGED vars
  BY <1>6, StutterKeeps
<1>7. QED
  BY <1>1, <1>2, <1>3, <1>4, <1>5, <1>6 DEF Next, Processing

\* The book's invariant holds throughout: what it says of orders, bars and lots
\* is what the fills of process_bar and the checks of reserve_or_reject keep up.
THEOREM BookInvHolds == Spec => []BookInv
<1>1. Init => BookInv
  BY InitKeeps
<1>2. BookInv /\ [Next]_vars => BookInv'
  BY StepKeeps
<1>3. QED
  BY <1>1, <1>2, PTL DEF Spec

\* The position's lots, quantity and cost basis and the double-entry ledger
\* agree after every fill, however FIFO sales split lots and round their cost.
THEOREM LotsAndLedgerAgree == Spec => []BookAgrees
<1>1. BookInv => BookAgrees
  BY DEF BookInv
<1>2. QED
  BY <1>1, BookInvHolds, PTL

\* Filled shares of an order rise in a fill of that order only.
LEMMA OnlyFillsFill ==
    ASSUME BookInv, Next, NEW k \in DOMAIN orders,
           orders'[k].filled > orders[k].filled
    PROVE  /\ FillBuy(k) \/ FillSell(k)
           /\ orders[k] \in Order
<1>1. orders \in Seq(Order) /\ orders[k] \in Order /\ orders[k].filled \in Nat
  <2>1. orders \in Seq(Order)
    BY DEF BookInv, TypeOK
  <2>2. orders[k] \in Order
    BY <2>1
  <2>3. QED
    BY <2>1, <2>2 DEF Order
<1>2. orders'[k] # orders[k]
  BY <1>1
<1>3. ASSUME NEW b, NEW price, NEW capacity, StartBar(b, price, capacity)
      PROVE  FALSE
  <2>1. orders'[k] = Expired(orders[k], Starts(b))
    BY <1>3 DEF StartBar
  <2>2. orders'[k].filled = orders[k].filled
    BY <1>1, <2>1, ExpiredIs
  <2>3. QED
    BY <1>1, <2>2
<1>4. ASSUME NEW i, NEW side, NEW n, NEW reference, NEW limit,
             Submit(i, side, n, reference, limit)
      PROVE  FALSE
  <2>1. PICK a : orders' = Append(orders, a)
    BY <1>4 DEF Submit
  <2>2. orders'[k] = orders[k]
    BY <1>1, <2>1
  <2>3. QED
    BY <1>2, <2>2
<1>5. ASSUME UNCHANGED orders
      PROVE  FALSE
  BY <1>2, <1>5
<1>6. PICK j \in DOMAIN orders : FillBuy(j) \/ FillSell(j)
  BY <1>3, <1>4, <1>5 DEF Next, Processing, NextInstant, PassOver, FinishBar
<1>7. PICK n : orders' = [orders EXCEPT ![j] = Filled(orders[j], n)]
  BY <1>6 DEF FillBuy, FillSell
<1>8. j = k
  BY <1>1, <1>2, <1>7
<1>9. QED
  BY <1>1, <1>6, <1>8

\* An order fills only from bars of its own session that began after it was
\* submitted: the eligibility check and expire_orders, together, see to it.
THEOREM FillsComeInSession == Spec => FillsInItsSession
<1> DEFINE Fair == \A k \in DOMAIN orders :
                      orders'[k].filled > orders[k].filled =>
                          /\ bar.starts >= orders[k].submitted
                          /\ Day(bar.starts) = Day(orders[k].expires)
<1>1. BookInv /\ [Next]_vars => [Fair]_vars
  <2> SUFFICES ASSUME BookInv, Next, NEW k \in DOMAIN orders,
                      orders'[k].filled > orders[k].filled
               PROVE  /\ bar.starts >= orders[k].submitted
                      /\ Day(bar.starts) = Day(orders[k].expires)
    OBVIOUS
  <2>1. Current(k) /\ orders[k] \in Order
    BY OnlyFillsFill DEF FillBuy, FillSell
  <2>2. /\ Filling /\ IsOpen(orders[k]) /\ orders[k].eligible <= bar.starts
        /\ bar.starts \in Nat
    BY <2>1, CurrentIs DEF BookInv, Eligible
  <2>3. /\ bar.starts < orders[k].expires
        /\ orders[k].submitted <= orders[k].eligible
        /\ orders[k].expires = Closes(Day(orders[k].eligible))
    BY <2>2 DEF BookInv, BarIsOpen, InSession
  <2>4. orders[k].eligible \in Nat /\ orders[k].submitted \in Nat
    BY <2>1 DEF Order
  <2> DEFINE d == Day(orders[k].eligible)
  <2>5. d \in Nat /\ Opens(d) \in Nat /\ Opens(d) <= orders[k].eligible
    BY <2>4, DayIs
  <2>6. Closes(d) \in Nat /\ Day(Closes(d)) = d
    BY <2>5, SessionIs
  <2>7. Opens(d) <= bar.starts /\ bar.starts <= Closes(d)
    BY <2>2, <2>3, <2>4, <2>5, <2>6
  <2> HIDE DEF d
  <2>8. Day(bar.starts) = d
    BY <2>2, <2>5, <2>7, DayIs
  <2>9. QED
    BY <2>2, <2>3, <2>4, <2>6, <2>8 DEF d
<1>2. QED
  BY <1>1, BookInvHolds, PTL DEF Spec, FillsInItsSession

-----------------------------------------------------------------------------
(* Cash *)

\* No price is so low that the buffer kept back on it rounds to less than a
\* quantum: with a quantum of 10^-8 and a buffer of 0.01 %, prices of 0.0001
\* and more.  Below that, rounding fees per fill may cost more than the buffer.
BufferCoversRounding == \A price \in Prices : price * BufferRate >= Scale

\* The fee of n shares is at most half a quantum a share, and half a quantum,
\* above n fees of one share.
LEMMA FeeOfMany ==
    ASSUME NEW p \in Nat, NEW n \in Nat \ {0}
    PROVE  /\ 2 * Fee(p * n) <= 2 * (n * Fee(p)) + n + 1
           /\ n = 1 => Fee(p * n) = n * Fee(p)
<1>1. PICK s \in Nat \ {0} : s = Scale
  BY Rates
<1>2. PICK x \in Nat, one \in Nat, many \in Nat :
         /\ x = p * FeeRate /\ one = Fee(p) /\ many = Fee(p * n)
  <2>1. p * FeeRate \in Nat /\ p * n \in Nat
    BY Rates
  <2>2. QED
    BY <2>1, FeeIs
<1>3. (p * n) * FeeRate = n * x
  BY <1>2, Rates
<1>4. one = HalfEven(x, s) /\ many = HalfEven(n * x, s)
  BY <1>1, <1>2, <1>3 DEF Fee
<1>5. 2 * s * one >= 2 * x - s /\ 2 * s * many <= 2 * (n * x) + s
  <2>1. n * x \in Int
    OBVIOUS
  <2>2. QED
    BY <1>4, <2>1, Half
<1>6. n * (2 * x) <= n * (2 * s * one + s)
  BY <1>5
<1>7. s * (2 * many) <= s * (2 * (n * one) + n + 1)
  BY <1>5, <1>6
<1>8. 2 * many <= 2 * (n * one) + n + 1
  BY <1>7
<1>9. n = 1 => many = n * one
  BY <1>4
<1>10. QED
  BY <1>2, <1>8, <1>9

\* What the buffer gives back when cash falls by the price of n shares
LEMMA BufferFalls ==
    ASSUME NEW c \in Int, NEW d \in Int, NEW n \in Nat \ {0},
           (c - d) * BufferRate >= n * Scale
    PROVE  HalfEven(c * BufferRate, Scale) - HalfEven(d * BufferRate, Scale) >= n - 1
<1>1. PICK s \in Nat \ {0}, r \in Nat : s = Scale /\ r = BufferRate
  BY Rates
<1>2. PICK x \in Int, y \in Int : x = c * r /\ y = d * r
  OBVIOUS
<1>3. x - y >= n * s
  BY <1>1, <1>2
<1>4. PICK a \in Int, b \in Int : a = HalfEven(x, s) /\ b = HalfEven(y, s)
  BY Half
<1>5. 2 * s * a >= 2 * x - s /\ 2 * s * b <= 2 * y + s
  BY <1>4, Half
<1>6. s * (a - b) >= s * (n - 1)
  BY <1>3, <1>5
<1>7. a - b >= n - 1
  BY <1>6
<1>8. QED
  BY <1>1, <1>2, <1>4, <1>7

LEMMA BufferHolds ==
    ASSUME NEW c \in Nat, NEW n \in Nat, c * BufferRate >= n * Scale
    PROVE  HalfEven(c * BufferRate, Scale) >= n
<1>1. n * Scale \in Int /\ c * BufferRate \in Int /\ Scale \in Nat \ {0} /\ n \in Int
  BY Rates
<1>2. HalfEven(n * Scale, Scale) = n
  BY <1>1, Exact
<1>3. HalfEven(n * Scale, Scale) <= HalfEven(c * BufferRate, Scale)
  BY <1>1, Mono
<1>4. QED
  BY <1>2, <1>3

\* A BUY leaves cash, and in buying power what the other orders reserve.
LEMMA BuySpares ==
    ASSUME BookInv, Solvent, BufferCoversRounding, NEW k, FillBuy(k)
    PROVE  cash' \in Int /\ cash' >= 0 /\ ReservedCash(k) <= BuyingPower'
<1>1. PICK n : n = FillQuantity(k)
  OBVIOUS
<1>2. PICK p : p = FillPrice("BUY", bar.price)
  OBVIOUS
<1>3. Current(k) /\ orders[k].side = "BUY" /\ n > 0
  BY <1>1 DEF FillBuy
<1>4. /\ n \in Nat \ {0} /\ p \in Nat \ {0}
      /\ n * UnitCash(p) <= BuyingPower - ReservedCash(k)
  BY <1>1, <1>2, <1>3, FillIs DEF BookInv
<1>5. p * BufferRate >= Scale
  <2>1. bar.price \in Prices /\ bar.price \in Nat
    BY <1>3, CurrentIs, Rates DEF BookInv
  <2>2. p >= bar.price /\ bar.price * BufferRate >= Scale
    BY <1>2, <2>1, FillPriceIs DEF BufferCoversRounding
  <2>3. p * BufferRate >= bar.price * BufferRate
    BY <1>4, <2>1, <2>2, Rates
  <2>4. QED
    BY <1>4, <2>1, <2>2, <2>3, Rates
<1>6. PICK gross \in Nat, one \in Nat, fee \in Nat :
         gross = p * n /\ one = Fee(p) /\ fee = Fee(gross)
  <2>1. p * n \in Nat /\ p \in Nat
    BY <1>4
  <2>2. QED
    BY <2>1, FeeIs
<1>7. /\ 2 * fee <= 2 * (n * one) + n + 1
      /\ n = 1 => fee = n * one
  BY <1>4, <1>6, FeeOfMany
<1>8. PICK c \in Nat, e \in Int : c = cash /\ e = cash' /\ e = c - gross - fee
  <2>1. cash \in Nat
    BY DEF BookInv, TypeOK, Solvent
  <2>2. cash' = cash - gross - fee
    BY <1>1, <1>2, <1>6 DEF FillBuy
  <2>3. QED
    BY <2>1, <2>2
<1>9. PICK b \in Int, f \in Int :
         b = HalfEven(c * BufferRate, Scale) /\ f = HalfEven(e * BufferRate, Scale)
  <2>1. c * BufferRate \in Int /\ e * BufferRate \in Int /\ Scale \in Nat \ {0}
    BY Rates
  <2>2. QED
    BY <2>1, Half
<1>10. PICK held \in Nat : held = ReservedCash(k)
  BY ReservationsAre DEF BookInv, TypeOK
<1>11. BuyingPower = c - b /\ BuyingPower' = e - f
  BY <1>8, <1>9 DEF BuyingPower
<1>12. PICK ones \in Nat : ones = n * one
  BY <1>4, <1>6
<1>13. gross + ones + held <= c - b
  <2>1. n * UnitCash(p) = gross + ones
    BY <1>4, <1>6, <1>12 DEF UnitCash
  <2>2. QED
    BY <1>4, <1>10, <1>11, <2>1
<1>14. gross * BufferRate >= n * Scale
  <2>1. (p * BufferRate) * n >= Scale * n
    BY <1>4, <1>5, Rates
  <2>2. QED
    BY <1>4, <1>6, <2>1, Rates
<1>15. b >= n
  <2>1. b >= 0
    <3>1. c * BufferRate >= 0 * Scale
      BY Rates
    <3>2. QED
      BY <1>9, <3>1, BufferHolds
  <2>2. c >= gross
    BY <1>13, <2>1
  <2>3. c * BufferRate >= gross * BufferRate
    BY <2>2, Rates
  <2>4. c * BufferRate >= n * Scale
    BY <1>4, <1>14, <2>3, Rates
  <2>5. QED
    BY <1>4, <1>9, <2>4, BufferHolds
<1>16. b - f >= n - 1
  <2>1. c - e >= gross
    BY <1>8
  <2>2. (c - e) * BufferRate >= gross * BufferRate
    BY <2>1, Rates
  <2>3. (c - e) * BufferRate >= n * Scale
    BY <1>4, <1>14, <2>2, Rates
  <2>4. QED
    BY <1>4, <1>9, <2>3, BufferFalls
<1>17. 2 * fee <= 2 * ones + n + 1 /\ (n = 1 => fee = ones) /\ n \in Nat \ {0}
  BY <1>4, <1>7, <1>12
<1>18. e >= 0
  BY <1>8, <1>13, <1>15, <1>17
<1>19. held <= e - f
  BY <1>8, <1>13, <1>16, <1>17
<1>20. QED
  BY <1>8, <1>10, <1>11, <1>18, <1>19

LEMMA StaysSolvent ==
    ASSUME BufferCoversRounding, BookInv, Solvent, [Next]_vars
    PROVE  Solvent'
<1>1. ASSUME NEW k, FillBuy(k)
      PROVE  Solvent'
  BY <1>1, BuySpares DEF Solvent
<1>2. ASSUME NEW k, FillSell(k)
      PROVE  Solvent'
  <2>1. PICK n : n = FillQuantity(k)
    OBVIOUS
  <2>2. Current(k) /\ n > 0
    BY <1>2, <2>1 DEF FillSell
  <2>3. n \in Nat
    BY <2>1, <2>2, FillIs DEF BookInv
  <2>4. bar.price \in Nat
    BY <2>2, CurrentIs, Rates DEF BookInv
  <2>5. PICK gross \in Nat : gross = FillPrice("SELL", bar.price) * n
    <3>1. FillPrice("SELL", bar.price) \in Nat
      BY <2>4, FillPriceIs
    <3>2. QED
      BY <2>3, <3>1
  <2>6. Fee(gross) \in 0..gross
    BY FeeIs
  <2>7. cash' = cash + gross - Fee(gross) /\ cash \in Int
    BY <1>2, <2>1, <2>5 DEF FillSell, BookInv, TypeOK
  <2>8. QED
    BY <2>6, <2>7 DEF Solvent
<1>3. CASE UNCHANGED cash
  BY <1>3 DEF Solvent
<1>4. QED
  BY <1>1, <1>2, <1>3
     DEF Next, Processing, NextInstant, StartBar, PassOver, FinishBar, Submit, vars, book

\* Cash, holdings and exposure stay within their means.
THEOREM BookIsSound ==
    ASSUME BufferCoversRounding
    PROVE  Spec => []BookInvariant
<1>1. Init => BookInv /\ Solvent
  BY InitKeeps, Rates DEF Init, Solvent
<1>2. (BookInv /\ Solvent) /\ [Next]_vars => (BookInv /\ Solvent)'
  BY StepKeeps, StaysSolvent
<1>3. BookInv /\ Solvent => BookInvariant
  BY DEF BookInv, BookInvariant
<1>4. QED
  BY <1>1, <1>2, <1>3, PTL DEF Spec

\* The cash other orders reserve survives a fill.
THEOREM ReservationsAreSpared ==
    ASSUME BufferCoversRounding
    PROVE  Spec => FillsSpareReservations
<1> DEFINE Spared == \A k \in DOMAIN orders :
                        orders[k].side = "BUY" /\ orders'[k].filled > orders[k].filled =>
                            ReservedCash(k) <= BuyingPower'
<1>1. BookInv /\ Solvent /\ [Next]_vars => [Spared]_vars
  <2> SUFFICES ASSUME BookInv, Solvent, Next, NEW k \in DOMAIN orders,
                      orders[k].side = "BUY", orders'[k].filled > orders[k].filled
               PROVE  ReservedCash(k) <= BuyingPower'
    OBVIOUS
  <2>1. FillBuy(k)
    BY OnlyFillsFill DEF FillSell
  <2>2. QED
    BY <2>1, BuySpares
<1>2. Init => BookInv /\ Solvent
  BY InitKeeps, Rates DEF Init, Solvent
<1>3. (BookInv /\ Solvent) /\ [Next]_vars => (BookInv /\ Solvent)'
  BY StepKeeps, StaysSolvent
<1>4. QED
  BY <1>1, <1>2, <1>3, PTL DEF Spec, FillsSpareReservations

=============================================================================
