----------------------------- MODULE CountingProofs ----------------------------
(***************************************************************************)
(* What sums and sorted lists are good for: how a sum changes when an       *)
(* element is added, removed or given another value, that a larger set has  *)
(* no smaller sum, and that a sorted list has every element once, in order. *)
(***************************************************************************)
EXTENDS Counting, Integers, Sequences, FiniteSetTheorems, NaturalsInduction, WellFoundedInduction, TLAPS

(* The units of a sum, by the element they come from.                       *)
LEMMA UnitOf ==
  ASSUME NEW f, NEW S, NEW t
  PROVE  t \in Units(f, S) <=> \E x \in S : \E k \in 1 .. f[x] : t = <<x, k>>
BY DEF Units

(* One element contributes as many units as its value says.                 *)
LEMMA HeapOf ==
  ASSUME NEW x, NEW n \in Nat
  PROVE  /\ IsFiniteSet({x} \X (1 .. n))
         /\ Cardinality({x} \X (1 .. n)) = n
<1>1. IsFiniteSet({x}) /\ Cardinality({x}) = 1
  BY FS_Singleton
<1>2. IsFiniteSet(1 .. n) /\ Cardinality(1 .. n) = n
  BY FS_Interval
<1>3. /\ IsFiniteSet({x} \X (1 .. n))
      /\ Cardinality({x} \X (1 .. n)) = Cardinality({x}) * Cardinality(1 .. n)
  <2> QED  BY <1>1, <1>2, FS_Product, Zenon
<1> QED
  BY <1>1, <1>2, <1>3

(* A finite set has finitely many units.                                    *)
LEMMA UnitsFinite ==
  ASSUME NEW S, IsFiniteSet(S), NEW f, \A x \in S : f[x] \in Nat
  PROVE  IsFiniteSet(Units(f, S))
<1> DEFINE heaps == {{x} \X (1 .. f[x]) : x \in S}
           heap == [x \in S |-> {x} \X (1 .. f[x])]
<1>1. heap \in Surjection(S, heaps)
  BY DEF Surjection
<1>2. IsFiniteSet(heaps)
  <2> HIDE DEF heaps, heap
  <2> QED  BY <1>1, FS_Surjection
<1>3. \A h \in heaps : IsFiniteSet(h)
  <2> SUFFICES ASSUME NEW x \in S  PROVE  IsFiniteSet({x} \X (1 .. f[x]))
    OBVIOUS
  <2>1. f[x] \in Nat
    OBVIOUS
  <2> QED
    BY <2>1, HeapOf, Zenon
<1> QED
  BY <1>2, <1>3, FS_UNION DEF Units

(* The sum over a finite set is a natural number.                           *)
LEMMA TotalType ==
  ASSUME NEW S, IsFiniteSet(S), NEW f, \A x \in S : f[x] \in Nat
  PROVE  Total(f, S) \in Nat
BY UnitsFinite, FS_CardinalityType DEF Total

(* The empty sum.                                                           *)
LEMMA TotalEmpty == \A f : Total(f, {}) = 0
<1> TAKE f
<1>1. Units(f, {}) = {}
  BY DEF Units
<1> QED
  BY <1>1, FS_EmptySet DEF Total

(* Only the values of the elements matter.                                  *)
LEMMA TotalSame ==
  ASSUME NEW S, NEW f, NEW g, \A x \in S : f[x] = g[x]
  PROVE  Total(f, S) = Total(g, S)
<1>1. Units(f, S) = Units(g, S)
  BY UnitOf DEF Units
<1> QED
  BY <1>1 DEF Total

(* The sum over two sets without a common element.                          *)
LEMMA TotalSplit ==
  ASSUME NEW S, IsFiniteSet(S), NEW T, IsFiniteSet(T), S \cap T = {},
         NEW f, \A x \in S \cup T : f[x] \in Nat
  PROVE  Total(f, S \cup T) = Total(f, S) + Total(f, T)
<1>1. Units(f, S \cup T) = Units(f, S) \cup Units(f, T)
  BY DEF Units
<1>2. Units(f, S) \cap Units(f, T) = {}
  BY DEF Units
<1>3. IsFiniteSet(Units(f, S)) /\ IsFiniteSet(Units(f, T))
  BY UnitsFinite
<1>4. Cardinality(Units(f, S)) \in Nat /\ Cardinality(Units(f, T)) \in Nat
  BY <1>3, FS_CardinalityType
<1>5. Cardinality(Units(f, S) \cap Units(f, T)) = 0
  BY <1>2, FS_EmptySet
<1>6. Cardinality(Units(f, S) \cup Units(f, T)) =
        Cardinality(Units(f, S)) + Cardinality(Units(f, T))
          - Cardinality(Units(f, S) \cap Units(f, T))
  BY <1>3, FS_Union, Zenon
<1>7. Cardinality(Units(f, S \cup T)) = Cardinality(Units(f, S) \cup Units(f, T))
  BY <1>1, Zenon
<1>8. Cardinality(Units(f, S \cup T)) = Cardinality(Units(f, S)) + Cardinality(Units(f, T))
  BY <1>4, <1>5, <1>6, <1>7
<1> QED
  BY <1>8, Zenon DEF Total

(* The sum over one element.                                                *)
LEMMA TotalSingleton ==
  ASSUME NEW x, NEW f, f[x] \in Nat
  PROVE  Total(f, {x}) = f[x]
<1>1. Units(f, {x}) = {x} \X (1 .. f[x])
  BY DEF Units
<1> QED
  BY <1>1, HeapOf DEF Total

(* A set that fits into another element by element, each value no larger,   *)
(* has no larger sum.                                                       *)
LEMMA TotalInjection ==
  ASSUME NEW S, IsFiniteSet(S), NEW T, IsFiniteSet(T),
         NEW f, \A x \in S : f[x] \in Nat,
         NEW g, \A y \in T : g[y] \in Nat,
         NEW h \in [S -> T], \A x, y \in S : h[x] = h[y] => x = y,
         \A x \in S : f[x] <= g[h[x]]
  PROVE  Total(f, S) <= Total(g, T)
<1> DEFINE move == [t \in Units(f, S) |-> <<h[t[1]], t[2]>>]
<1>1. move \in [Units(f, S) -> Units(g, T)]
  <2> SUFFICES ASSUME NEW t \in Units(f, S)
               PROVE  <<h[t[1]], t[2]>> \in Units(g, T)
    OBVIOUS
  <2>1. PICK x \in S : \E k \in 1 .. f[x] : t = <<x, k>>
    BY UnitOf
  <2>2. PICK k \in 1 .. f[x] : t = <<x, k>>
    BY <2>1
  <2>3. h[x] \in T /\ k \in 1 .. g[h[x]]
    BY <2>2
  <2> QED
    BY <2>2, <2>3, UnitOf
<1>2. \A a, b \in Units(f, S) : move[a] = move[b] => a = b
  <2> SUFFICES ASSUME NEW a \in Units(f, S), NEW b \in Units(f, S), move[a] = move[b]
               PROVE  a = b
    OBVIOUS
  <2>1. PICK x \in S, k \in Nat : a = <<x, k>>
    BY UnitOf
  <2>2. PICK y \in S, j \in Nat : b = <<y, j>>
    BY UnitOf
  <2>3. h[x] = h[y] /\ k = j
    BY <2>1, <2>2
  <2>4. x = y
    BY <2>3
  <2> QED
    BY <2>1, <2>2, <2>3, <2>4
<1>3. move \in Injection(Units(f, S), Units(g, T))
  BY <1>1, <1>2 DEF Injection, IsInjective
<1>4. IsFiniteSet(Units(g, T))
  BY UnitsFinite
<1> HIDE DEF move
<1> QED
  BY <1>3, <1>4, FS_Injection DEF Total
(* One element more.                                                        *)
LEMMA TotalAdd ==
  ASSUME NEW S, IsFiniteSet(S), NEW x, x \notin S,
         NEW f, \A y \in S \cup {x} : f[y] \in Nat
  PROVE  Total(f, S \cup {x}) = Total(f, S) + f[x]
<1>1. IsFiniteSet({x}) /\ S \cap {x} = {}
  BY FS_Singleton
<1>2. Total(f, S \cup {x}) = Total(f, S) + Total(f, {x})
  BY <1>1, TotalSplit, Zenon
<1>3. Total(f, {x}) = f[x]
  BY TotalSingleton
<1> QED
  BY <1>2, <1>3

(* One element less.                                                        *)
LEMMA TotalRemove ==
  ASSUME NEW S, IsFiniteSet(S), NEW x \in S, NEW f, \A y \in S : f[y] \in Nat
  PROVE  /\ IsFiniteSet(S \ {x})
         /\ Total(f, S \ {x}) \in Nat
         /\ Total(f, S) = Total(f, S \ {x}) + f[x]
         /\ Total(f, S \ {x}) = Total(f, S) - f[x]
<1>1. IsFiniteSet(S \ {x})
  BY FS_Subset
<1>2. S = (S \ {x}) \cup {x}
  OBVIOUS
<1>3. x \notin S \ {x}
  OBVIOUS
<1>4. \A y \in (S \ {x}) \cup {x} : f[y] \in Nat
  OBVIOUS
<1>5. Total(f, (S \ {x}) \cup {x}) = Total(f, S \ {x}) + f[x]
  BY <1>1, <1>3, <1>4, TotalAdd, Zenon
<1>6. Total(f, S \ {x}) \in Nat
  BY <1>1, TotalType
<1>7. Total(f, S) = Total(f, S \ {x}) + f[x]
  BY <1>2, <1>5, Zenon
<1>8. f[x] \in Nat
  OBVIOUS
<1> QED
  BY <1>1, <1>6, <1>7, <1>8

(* A part and the rest: the part has no larger sum.                         *)
LEMMA TotalSubset ==
  ASSUME NEW T, IsFiniteSet(T), NEW S, S \subseteq T, NEW f, \A y \in T : f[y] \in Nat
  PROVE  /\ IsFiniteSet(S)
         /\ IsFiniteSet(T \ S)
         /\ Total(f, S) \in Nat
         /\ Total(f, T \ S) \in Nat
         /\ Total(f, T) = Total(f, S) + Total(f, T \ S)
         /\ Total(f, T \ S) = Total(f, T) - Total(f, S)
         /\ Total(f, S) <= Total(f, T)
<1>1. IsFiniteSet(S) /\ IsFiniteSet(T \ S)
  BY FS_Subset
<1>2. T = S \cup (T \ S) /\ S \cap (T \ S) = {}
  OBVIOUS
<1>3. Total(f, S) \in Nat /\ Total(f, T \ S) \in Nat
  BY <1>1, TotalType
<1>4. Total(f, S \cup (T \ S)) = Total(f, S) + Total(f, T \ S)
  BY <1>1, <1>2, TotalSplit, Zenon
<1>5. Total(f, T) = Total(f, S) + Total(f, T \ S)
  BY <1>2, <1>4, Zenon
<1> QED
  BY <1>1, <1>3, <1>5
(* One element gets another value.                                          *)
LEMMA TotalChange ==
  ASSUME NEW S, IsFiniteSet(S), NEW x \in S,
         NEW f, \A y \in S : f[y] \in Nat,
         NEW g, g[x] \in Nat, \A y \in S \ {x} : g[y] = f[y]
  PROVE  Total(g, S) = Total(f, S) - f[x] + g[x]
<1>1. \A y \in S : g[y] \in Nat
  OBVIOUS
<1>2. /\ Total(f, S \ {x}) \in Nat
      /\ Total(f, S) = Total(f, S \ {x}) + f[x]
  BY TotalRemove, Zenon
<1>3. Total(g, S) = Total(g, S \ {x}) + g[x]
  BY <1>1, TotalRemove, Zenon
<1>4. Total(g, S \ {x}) = Total(f, S \ {x})
  BY TotalSame, Zenon
<1>5. f[x] \in Nat
  OBVIOUS
<1> QED
  BY <1>2, <1>3, <1>4, <1>5
(* A sum of zeros.                                                          *)
LEMMA TotalZero ==
  ASSUME NEW S, NEW f, \A x \in S : f[x] = 0
  PROVE  Total(f, S) = 0
<1>1. Units(f, S) = {}
  BY DEF Units
<1> QED
  BY <1>1, FS_EmptySet DEF Total

-----------------------------------------------------------------------------
(* How many elements of S do not exceed x.                                  *)
Rank(S, x) == Cardinality({y \in S : y <= x})

(* A larger element has a larger rank.                                      *)
LEMMA RankGrows ==
  ASSUME NEW S, S \subseteq Nat, IsFiniteSet(S)
  PROVE  /\ \A x \in S : Rank(S, x) \in 1 .. Cardinality(S)
         /\ \A x, y \in S : x < y => Rank(S, x) < Rank(S, y)
<1> DEFINE D(x) == {y \in S : y <= x}
<1>1. ASSUME NEW x \in S  PROVE  Rank(S, x) \in 1 .. Cardinality(S)
  <2>1. x \in D(x) /\ D(x) \subseteq S
    OBVIOUS
  <2> HIDE DEF D
  <2>2. IsFiniteSet(D(x)) /\ Cardinality(D(x)) <= Cardinality(S)
    BY <2>1, FS_Subset
  <2>3. Cardinality(D(x)) \in Nat /\ Cardinality(S) \in Nat
    BY <2>2, FS_CardinalityType
  <2>4. Cardinality(D(x)) # 0
    BY <2>1, <2>2, FS_EmptySet
  <2> QED
    BY <2>2, <2>3, <2>4 DEF Rank, D
<1>2. ASSUME NEW x \in S, NEW y \in S, x < y  PROVE  Rank(S, x) < Rank(S, y)
  <2>1. D(x) \subseteq D(y) /\ D(x) # D(y) /\ D(y) \subseteq S
    <3>1. x \in Nat /\ y \in Nat
      OBVIOUS
    <3>2. y \in D(y) /\ y \notin D(x)
      BY <1>2, <3>1
    <3>3. \A z \in D(x) : z \in D(y)
      BY <1>2, <3>1
    <3> QED
      BY <3>2, <3>3
  <2> HIDE DEF D
  <2>2. IsFiniteSet(D(y))
    BY <2>1, FS_Subset
  <2>3. /\ IsFiniteSet(D(x)) /\ Cardinality(D(x)) <= Cardinality(D(y))
        /\ Cardinality(D(x)) # Cardinality(D(y))
    BY <2>1, <2>2, FS_Subset
  <2>4. Cardinality(D(x)) \in Nat /\ Cardinality(D(y)) \in Nat
    BY <2>2, <2>3, FS_CardinalityType
  <2> QED
    BY <2>3, <2>4 DEF Rank, D
<1> QED
  BY <1>1, <1>2

(* Every rank up to the number of elements belongs to one of them.          *)
LEMMA RankOnto ==
  ASSUME NEW S, S \subseteq Nat, IsFiniteSet(S)
  PROVE  /\ \A x, y \in S : Rank(S, x) = Rank(S, y) => x = y
         /\ \A i \in 1 .. Cardinality(S) : \E x \in S : Rank(S, x) = i
<1> DEFINE n == Cardinality(S)
           rank == [x \in S |-> Rank(S, x)]
<1>1. \A x, y \in S : Rank(S, x) = Rank(S, y) => x = y
  <2> SUFFICES ASSUME NEW x \in S, NEW y \in S, x # y  PROVE  Rank(S, x) # Rank(S, y)
    OBVIOUS
  <2>0. /\ \A u \in S : Rank(S, u) \in 1 .. Cardinality(S)
        /\ \A u, v \in S : u < v => Rank(S, u) < Rank(S, v)
    BY RankGrows, Zenon
  <2>1. Rank(S, x) \in Int /\ Rank(S, y) \in Int
    BY <2>0
  <2>2. x < y \/ y < x
    OBVIOUS
  <2> QED
    BY <2>0, <2>1, <2>2
<1>2. n \in Nat /\ IsFiniteSet(1 .. n) /\ Cardinality(1 .. n) = n
  BY FS_CardinalityType, FS_Interval
<1>3. rank \in Injection(S, 1 .. n)
  <2>1. rank \in [S -> 1 .. n]
    BY RankGrows
  <2>2. \A x, y \in S : rank[x] = rank[y] => x = y
    BY <1>1
  <2> QED
    BY <2>1, <2>2 DEF Injection, IsInjective
<1> HIDE DEF rank
<1>4. rank \in Surjection(S, 1 .. n)
  BY <1>2, <1>3, FS_Injection
<1>5. \A i \in 1 .. n : \E x \in S : rank[x] = i
  BY <1>4 DEF Surjection
<1> QED
  BY <1>1, <1>5 DEF rank

(* A sorted list has the elements of its set, each once and in order.       *)
LEMMA SortedSet ==
  ASSUME NEW S, S \subseteq Nat, IsFiniteSet(S)
  PROVE  /\ \A i \in 1 .. Cardinality(S) : Sorted(S)[i] \in S
         /\ \A i, j \in 1 .. Cardinality(S) : i < j => Sorted(S)[i] < Sorted(S)[j]
         /\ \A x \in S : \E i \in 1 .. Cardinality(S) : Sorted(S)[i] = x
<1> DEFINE n == Cardinality(S)
<1>1. ASSUME NEW i \in 1 .. n  PROVE  Sorted(S)[i] \in S /\ Rank(S, Sorted(S)[i]) = i
  <2>1. Sorted(S)[i] = CHOOSE x \in S : Rank(S, x) = i
    BY DEF Sorted, Rank
  <2>2. \E x \in S : Rank(S, x) = i
    BY RankOnto
  <2> QED
    BY <2>1, <2>2
<1>2. ASSUME NEW i \in 1 .. n, NEW j \in 1 .. n, i < j
      PROVE  Sorted(S)[i] < Sorted(S)[j]
  <2> DEFINE a == Sorted(S)[i]
             b == Sorted(S)[j]
  <2>1. a \in S /\ b \in S /\ Rank(S, a) = i /\ Rank(S, b) = j /\ i \in Int /\ j \in Int
    BY <1>1
  <2> HIDE DEF a, b
  <2>2. \A u, v \in S : u < v => Rank(S, u) < Rank(S, v)
    BY RankGrows, Zenon
  <2>3. b < a => j < i
    BY <2>1, <2>2
  <2>4. a # b /\ ~ (b < a)
    BY <1>2, <2>1, <2>3
  <2>5. a \in Nat /\ b \in Nat
    BY <2>1
  <2>6. a < b
    BY <2>4, <2>5
  <2> QED
    BY <2>6 DEF a, b
<1>3. ASSUME NEW x \in S  PROVE  \E i \in 1 .. n : Sorted(S)[i] = x
  <2>1. Rank(S, x) \in 1 .. n
    BY RankGrows
  <2>3. \A u, v \in S : Rank(S, u) = Rank(S, v) => u = v
    BY RankOnto, Zenon
  <2>2. Sorted(S)[Rank(S, x)] = x
    BY <1>1, <2>1, <2>3, Zenon
  <2> QED
    BY <2>1, <2>2
<1> QED
  BY <1>1, <1>2, <1>3

-----------------------------------------------------------------------------
(* How many elements of S precede x in the order R.                         *)
Preceding(S, R, x) == {y \in S : <<y, x>> \in R}

StrictOrder(S, R) ==
  /\ \A x \in S : <<x, x>> \notin R
  /\ \A x, y, z \in S : <<x, y>> \in R /\ <<y, z>> \in R => <<x, z>> \in R
  /\ \A x, y \in S : x = y \/ <<x, y>> \in R \/ <<y, x>> \in R

(* What comes later has more before it.                                     *)
LEMMA PrecedingGrows ==
  ASSUME NEW S, IsFiniteSet(S), NEW R, StrictOrder(S, R)
  PROVE  /\ Cardinality(S) \in Nat
         /\ \A x \in S : Cardinality(Preceding(S, R, x)) \in 0 .. (Cardinality(S) - 1)
         /\ \A x, y \in S : <<x, y>> \in R =>
              Cardinality(Preceding(S, R, x)) < Cardinality(Preceding(S, R, y))
<1> DEFINE D(x) == Preceding(S, R, x)
<1>0. Cardinality(S) \in Nat
  BY FS_CardinalityType
<1>1. ASSUME NEW x \in S
      PROVE  /\ IsFiniteSet(D(x)) /\ Cardinality(D(x)) \in Nat
             /\ Cardinality(D(x)) < Cardinality(S)
  <2>1. D(x) \subseteq S /\ x \notin D(x) /\ D(x) # S
    BY DEF Preceding, StrictOrder
  <2> HIDE DEF D
  <2>2. /\ IsFiniteSet(D(x)) /\ Cardinality(D(x)) <= Cardinality(S)
        /\ Cardinality(D(x)) # Cardinality(S)
    BY <2>1, FS_Subset
  <2>3. Cardinality(D(x)) \in Nat
    BY <2>2, FS_CardinalityType
  <2> QED
    BY <1>0, <2>2, <2>3
<1>2. ASSUME NEW x \in S, NEW y \in S, <<x, y>> \in R
      PROVE  Cardinality(D(x)) < Cardinality(D(y))
  <2>1. x \in D(y) /\ x \notin D(x)
    BY <1>2 DEF Preceding, StrictOrder
  <2>2. \A z \in D(x) : z \in D(y)
    BY <1>2 DEF Preceding, StrictOrder
  <2>3. IsFiniteSet(D(y)) /\ Cardinality(D(y)) \in Nat /\ Cardinality(D(x)) \in Nat
    BY <1>1
  <2>4. D(x) \subseteq D(y) /\ D(x) # D(y)
    BY <2>1, <2>2
  <2> HIDE DEF D
  <2>5. Cardinality(D(x)) <= Cardinality(D(y)) /\ Cardinality(D(x)) # Cardinality(D(y))
    BY <2>3, <2>4, FS_Subset
  <2> QED
    BY <2>3, <2>5
<1> HIDE DEF D
<1>3. \A x \in S : Cardinality(D(x)) \in 0 .. (Cardinality(S) - 1)
  BY <1>0, <1>1
<1>4. \A x, y \in S : <<x, y>> \in R => Cardinality(D(x)) < Cardinality(D(y))
  BY <1>2
<1> QED
  BY <1>0, <1>3, <1>4 DEF D

(* Every number below that of the elements is how many precede one of them. *)
LEMMA PrecedingOnto ==
  ASSUME NEW S, IsFiniteSet(S), NEW R, StrictOrder(S, R)
  PROVE  /\ \A x, y \in S :
              Cardinality(Preceding(S, R, x)) = Cardinality(Preceding(S, R, y)) => x = y
         /\ \A i \in 1 .. Cardinality(S) : \E x \in S : Cardinality(Preceding(S, R, x)) = i - 1
<1> DEFINE n == Cardinality(S)
           C(x) == Cardinality(Preceding(S, R, x))
           rank == [x \in S |-> C(x) + 1]
<1>0. /\ n \in Nat
      /\ \A x \in S : C(x) \in 0 .. (n - 1)
      /\ \A x, y \in S : <<x, y>> \in R => C(x) < C(y)
  BY PrecedingGrows, Zenon
<1> HIDE DEF C, n
<1>1. \A x, y \in S : C(x) = C(y) => x = y
  <2> SUFFICES ASSUME NEW x \in S, NEW y \in S, x # y  PROVE  C(x) # C(y)
    OBVIOUS
  <2>1. <<x, y>> \in R \/ <<y, x>> \in R
    BY DEF StrictOrder
  <2>2. C(x) \in Int /\ C(y) \in Int
    BY <1>0
  <2> QED
    BY <1>0, <2>1, <2>2
<1>2. IsFiniteSet(1 .. n) /\ Cardinality(1 .. n) = n
  BY <1>0, FS_Interval
<1>3. rank \in Injection(S, 1 .. n)
  <2>1. rank \in [S -> 1 .. n]
    BY <1>0
  <2>2. \A x, y \in S : rank[x] = rank[y] => x = y
    <3> SUFFICES ASSUME NEW x \in S, NEW y \in S, C(x) + 1 = C(y) + 1  PROVE  x = y
      OBVIOUS
    <3>1. C(x) \in Int /\ C(y) \in Int
      BY <1>0
    <3> QED
      BY <1>1, <3>1
  <2> QED
    BY <2>1, <2>2 DEF Injection, IsInjective
<1> HIDE DEF rank
<1>4. rank \in Surjection(S, 1 .. n)
  BY <1>2, <1>3, FS_Injection DEF n
<1>5. \A i \in 1 .. n : \E x \in S : C(x) = i - 1
  <2> SUFFICES ASSUME NEW i \in 1 .. n  PROVE  \E x \in S : C(x) = i - 1
    OBVIOUS
  <2>1. PICK x \in S : rank[x] = i
    BY <1>4 DEF Surjection
  <2>2. C(x) \in Int /\ C(x) + 1 = i
    BY <1>0, <2>1 DEF rank
  <2> QED
    BY <2>2
<1> QED
  BY <1>1, <1>5 DEF C, n

(* A list sorted by a strict order has the elements of its set, each once   *)
(* and in that order.                                                       *)
LEMMA SortedBySet ==
  ASSUME NEW S, IsFiniteSet(S), NEW R, StrictOrder(S, R)
  PROVE  /\ Cardinality(S) \in Nat
         /\ SortedBy(S, R) \in Seq(S)
         /\ Len(SortedBy(S, R)) = Cardinality(S)
         /\ \A i, j \in 1 .. Cardinality(S) :
              i < j => <<SortedBy(S, R)[i], SortedBy(S, R)[j]>> \in R
         /\ \A x \in S : \E i \in 1 .. Cardinality(S) : SortedBy(S, R)[i] = x
<1> DEFINE n == Cardinality(S)
           s == SortedBy(S, R)
           C(x) == Cardinality(Preceding(S, R, x))
<1>0. /\ n \in Nat
      /\ \A x \in S : C(x) \in 0 .. (n - 1)
      /\ \A x, y \in S : <<x, y>> \in R => C(x) < C(y)
  BY PrecedingGrows, Zenon
<1>1. /\ \A x, y \in S : C(x) = C(y) => x = y
      /\ \A i \in 1 .. n : \E x \in S : C(x) = i - 1
  BY PrecedingOnto
<1>2. s = [i \in 1 .. n |-> CHOOSE x \in S : C(x) = i - 1]
  BY DEF SortedBy, Preceding
<1> HIDE DEF n, s, C
<1>3. ASSUME NEW i \in 1 .. n  PROVE  s[i] \in S /\ C(s[i]) = i - 1
  BY <1>1, <1>2
<1>4. s \in Seq(S) /\ Len(s) = n
  BY <1>0, <1>2, <1>3
<1>5. ASSUME NEW i \in 1 .. n, NEW j \in 1 .. n, i < j  PROVE  <<s[i], s[j]>> \in R
  <2>1. /\ s[i] \in S /\ C(s[i]) = i - 1
        /\ s[j] \in S /\ C(s[j]) = j - 1
    BY <1>3
  <2>2. i \in Int /\ j \in Int
    OBVIOUS
  <2>3. s[i] # s[j]
    BY <1>5, <2>1, <2>2
  <2>4. <<s[j], s[i]>> \notin R
    <3> SUFFICES ASSUME <<s[j], s[i]>> \in R  PROVE  FALSE
      OBVIOUS
    <3>1. C(s[j]) < C(s[i])
      BY <1>0, <2>1
    <3> QED
      BY <1>5, <2>1, <2>2, <3>1
  <2> QED
    BY <2>1, <2>3, <2>4 DEF StrictOrder
<1>6. ASSUME NEW x \in S  PROVE  \E i \in 1 .. n : s[i] = x
  <2>1. C(x) \in 0 .. (n - 1)
    BY <1>0
  <2>2. C(x) + 1 \in 1 .. n /\ (C(x) + 1) - 1 = C(x)
    BY <1>0, <2>1
  <2>3. s[C(x) + 1] \in S /\ C(s[C(x) + 1]) = C(x)
    BY <1>3, <2>2
  <2>4. s[C(x) + 1] = x
    BY <1>1, <2>3
  <2> QED
    BY <2>2, <2>4
<1> QED
  BY <1>0, <1>4, <1>5, <1>6 DEF n, s
-----------------------------------------------------------------------------
(* Induction without a predicate as parameter: a set of numbers has a least *)
(* one.                                                                     *)
LEMMA LeastNumber ==
  ASSUME NEW T, T \subseteq Nat, T # {}
  PROVE  \E x \in T : \A y \in T : x <= y
<1>1. PICK x \in T : \A y \in T : ~ (<<y, x>> \in OpToRel(<, Nat))
  BY NatLessThanWellFounded, WFMin
<1>2. ASSUME NEW y \in T, y < x  PROVE  FALSE
  <2>1. <<y, x>> \in Nat \X Nat
    OBVIOUS
  <2>2. <<y, x>> \in {p \in Nat \X Nat : p[1] < p[2]}
    BY <1>2, <2>1
  <2> QED
    BY <1>1, <2>2, Zenon DEF OpToRel
<1>3. \A y \in T : x <= y
  BY <1>2
<1> QED
  BY <1>3

(* A set of numbers with 0 and with the successor of each is that of all.   *)
LEMMA AllNumbers ==
  ASSUME NEW P, 0 \in P, \A n \in Nat : n \in P => n + 1 \in P
  PROVE  \A n \in Nat : n \in P
<1> SUFFICES ASSUME NEW m \in Nat, m \notin P  PROVE  FALSE
  OBVIOUS
<1> DEFINE T == {n \in Nat : n \notin P}
<1>1. T \subseteq Nat /\ T # {}
  OBVIOUS
<1>2. PICK x \in T : \A y \in T : x <= y
  <2> HIDE DEF T
  <2> QED  BY <1>1, LeastNumber, Zenon
<1>3. x \in Nat /\ x \notin P /\ x # 0
  OBVIOUS
<1>4. x - 1 \in Nat /\ (x - 1) + 1 = x
  BY <1>3
<1>5. x - 1 \in P
  BY <1>2, <1>4
<1> QED
  BY <1>3, <1>4, <1>5

(* The union of finitely many finite sets is finite.                        *)
LEMMA UnionFinite ==
  ASSUME NEW S, IsFiniteSet(S), NEW C, \A x \in S : IsFiniteSet(C[x])
  PROVE  IsFiniteSet(UNION {C[x] : x \in S})
<1> DEFINE parts == {C[x] : x \in S}
           part == [x \in S |-> C[x]]
<1>1. part \in Surjection(S, parts)
  BY DEF Surjection
<1>2. \A p \in parts : IsFiniteSet(p)
  OBVIOUS
<1> HIDE DEF parts, part
<1>3. IsFiniteSet(parts)
  BY <1>1, FS_Surjection
<1>4. IsFiniteSet(UNION parts)
  BY <1>2, <1>3, FS_UNION
<1> QED
  BY <1>4 DEF parts

(* The sum over the union of sets without common elements is the sum of     *)
(* their sums.                                                              *)
LEMMA TotalUnion ==
  ASSUME NEW S, IsFiniteSet(S), NEW C, NEW w, NEW g,
         \A x \in S : IsFiniteSet(C[x]) /\ \A y \in C[x] : w[y] \in Nat,
         \A x, y \in S : x # y => C[x] \cap C[y] = {},
         \A x \in S : g[x] = Total(w, C[x])
  PROVE  Total(g, S) = Total(w, UNION {C[x] : x \in S})
<1> DEFINE U(Q) == UNION {C[x] : x \in Q}
           P == {n \in Nat : \A Q \in SUBSET S : Cardinality(Q) = n => Total(g, Q) = Total(w, U(Q))}
<1>1. 0 \in P
  <2> SUFFICES ASSUME NEW Q \in SUBSET S, Cardinality(Q) = 0
               PROVE  Total(g, Q) = Total(w, U(Q))
    OBVIOUS
  <2>1. Q = {}
    BY FS_Subset, FS_EmptySet
  <2>2. U(Q) = {}
    BY <2>1
  <2> QED
    BY <2>1, <2>2, TotalEmpty
<1>2. ASSUME NEW n \in Nat, n \in P  PROVE  n + 1 \in P
  <2> SUFFICES ASSUME NEW Q \in SUBSET S, Cardinality(Q) = n + 1
               PROVE  Total(g, Q) = Total(w, U(Q))
    OBVIOUS
  <2>1. IsFiniteSet(Q)
    BY FS_Subset
  <2>2. Q # {}
    BY <2>1, FS_EmptySet
  <2>3. PICK x \in Q : TRUE
    BY <2>2
  <2> DEFINE rest == Q \ {x}
  <2>4. IsFiniteSet(rest) /\ Cardinality(rest) = n
    <3>1. Cardinality(rest) = Cardinality(Q) - 1
      BY <2>1, <2>3, FS_RemoveElement
    <3> QED
      BY <2>1, <3>1, FS_Subset
  <2>5. rest \in SUBSET S /\ x \notin rest /\ Q = rest \cup {x}
    OBVIOUS
  <2> HIDE DEF rest
  <2>6. Total(g, rest) = Total(w, U(rest))
    BY <1>2, <2>4, <2>5
  <2>7. \A y \in Q : g[y] \in Nat
    BY TotalType
  <2>8. Total(g, Q) = Total(g, rest) + g[x]
    BY <2>4, <2>5, <2>7, TotalAdd
  <2>9. IsFiniteSet(U(rest)) /\ IsFiniteSet(C[x])
    BY <2>4, <2>5, UnionFinite
  <2>10. U(Q) = U(rest) \cup C[x]
    BY <2>5
  <2>11. U(rest) \cap C[x] = {}
    BY <2>5
  <2>12. \A y \in U(rest) \cup C[x] : w[y] \in Nat
    BY <2>5
  <2> HIDE DEF U, P
  <2>13. Total(w, U(rest) \cup C[x]) = Total(w, U(rest)) + Total(w, C[x])
    BY <2>9, <2>11, <2>12, TotalSplit
  <2>14. g[x] = Total(w, C[x])
    BY <2>3
  <2> QED
    BY <2>6, <2>8, <2>10, <2>13, <2>14
<1>3. Cardinality(S) \in Nat
  BY FS_CardinalityType
<1>4. Cardinality(S) \in P
  <2> HIDE DEF P
  <2> QED  BY <1>1, <1>2, <1>3, AllNumbers
<1>5. Total(g, S) = Total(w, U(S))
  BY <1>4
<1> QED
  BY <1>5

(* What a function makes of a finite set is finite.                         *)
LEMMA ImageFinite ==
  ASSUME NEW S, IsFiniteSet(S), NEW f
  PROVE  IsFiniteSet({f[x] : x \in S})
<1> DEFINE T == {f[x] : x \in S}
           g == [x \in S |-> f[x]]
<1>1. g \in Surjection(S, T)
  BY DEF Surjection
<1> HIDE DEF T, g
<1>2. IsFiniteSet(T)
  BY <1>1, FS_Surjection
<1> QED
  BY <1>2 DEF T
(* A sum of ones counts the elements.                                       *)
LEMMA TotalOnes ==
  ASSUME NEW S, IsFiniteSet(S), NEW f, \A x \in S : f[x] = 1
  PROVE  Total(f, S) = Cardinality(S)
<1> DEFINE unit == [x \in S |-> <<x, 1>>]
           U == Units(f, S)
<1>1. \A t : t \in U <=> \E x \in S : t = <<x, 1>>
  BY DEF Units
<1> HIDE DEF U
<1>2. unit \in Bijection(S, U)
  BY <1>1 DEF Bijection, Injection, Surjection, IsInjective
<1> HIDE DEF unit
<1>3. ExistsBijection(S, U)
  BY <1>2 DEF ExistsBijection
<1>4. Cardinality(U) = Cardinality(S)
  BY <1>3, FS_Bijection
<1> QED
  BY <1>4 DEF Total, U
===============================================================================
